---- MODULE Spec2Model ----
(***************************************************************************)
(* Server-side simulation of the two-team paint shooter                    *)
(* (src/unnamed/part_000): lobby assignment, the paint grid, and gameTick. *)
(*                                                                         *)
(* Numbers.  The server computes in IEEE-754 doubles, and so does the      *)
(* model: positions, velocities, hp, erase-resource, cooldown, timers and  *)
(* bullet lives are doubles, with +, -, * and / rounded to nearest, ties   *)
(* to even, as the machine rounds them (section Doubles).  No operation of *)
(* the server overflows, underflows or yields -0 or NaN, so the model has  *)
(* none of these.  x ** 2 is taken as x * x.  Counts, grid indices, team   *)
(* ids and radii handed to the paint functions are integers.  An angle a   *)
(* in 0..3 stands for the double a * Math.PI / 2 that a client sends.      *)
(***************************************************************************)
EXTENDS Integers, Sequences, FiniteSets, TLC

VARIABLES players, bullets, paint, log, since, nextId, fuel

vars == <<players, bullets, paint, log, since, nextId, fuel>>

(* ------------------------------------------------------------------ *)
(* Doubles                                                            *)
(* ------------------------------------------------------------------ *)
(* A double is <<s, e, h, l>>: the number (-1)^s * (h * 2^28 + l) * 2^e    *)
(* with 2^52 <= h * 2^28 + l < 2^53 (h has 25 bits, l has 28), or Zero.    *)
Zero == <<0, 0, 0, 0>>

Neg(a) == IF a[3] = 0 THEN a ELSE <<1 - a[1], a[2], a[3], a[4]>>

(* |a| >= |b| for doubles other than Zero *)
MagGe(a, b) ==
  \/ a[2] > b[2]
  \/ a[2] = b[2] /\ (a[3] > b[3] \/ (a[3] = b[3] /\ a[4] >= b[4]))

(* -1, 0, 1 as a < b, a = b, a > b *)
Cmp(a, b) ==
  IF a = b THEN 0
  ELSE IF a[3] = 0 THEN (IF b[1] = 0 THEN -1 ELSE 1)
  ELSE IF b[3] = 0 THEN (IF a[1] = 0 THEN 1 ELSE -1)
  ELSE IF a[1] # b[1] THEN (IF a[1] = 1 THEN -1 ELSE 1)
  ELSE IF MagGe(a, b) = (a[1] = 0) THEN 1 ELSE -1

Lt(a, b) == Cmp(a, b) < 0
Le(a, b) == Cmp(a, b) <= 0

(* v with its lowest bit set when bits were lost below it *)
Sticky(v, lost) == IF lost /\ v % 2 = 0 THEN v + 1 ELSE v

(* the 56-bit number h * 2^28 + l shifted right by d bits: <<h, l>> *)
ShiftR(h, l, d) ==
  IF d = 0 THEN <<h, l>>
  ELSE IF d < 28
    THEN <<h \div 2^d,
           Sticky((h % 2^d) * 2^(28 - d) + l \div 2^d, l % 2^d # 0)>>
  ELSE IF d < 56
    THEN <<0, Sticky(h \div 2^(d - 28), h % 2^(d - 28) # 0 \/ l # 0)>>
  ELSE <<0, IF h # 0 \/ l # 0 THEN 1 ELSE 0>>

(* h * 2^28 + l (not 0) shifted left until bit 55 is set: <<h, l, e>> *)
RECURSIVE NormL(_, _, _)
NormL(h, l, e) ==
  IF h >= 2^27 THEN <<h, l, e>>
  ELSE IF h < 2^14
    THEN NormL(h * 2^14 + l \div 2^14, (l % 2^14) * 2^14, e - 14)
  ELSE IF h < 2^23
    THEN NormL(h * 16 + l \div 2^24, (l % 2^24) * 16, e - 4)
  ELSE NormL(h * 2 + l \div 2^27, (l % 2^27) * 2, e - 1)

(* round to nearest, ties to even: the 56-bit number h * 2^28 + l, bit 55  *)
(* set, times 2^e, to the 53 bits qh * 2^28 + ql (one up when the three    *)
(* bits cut off say so)                                                    *)
Round(s, h, l, e) ==
  LET qh == h \div 8
      ql == l \div 8 + (h % 8) * 2^25
  IN  IF l % 8 > 4 \/ (l % 8 = 4 /\ (l \div 8) % 2 = 1)
      THEN IF ql + 1 < 2^28 THEN <<s, e + 3, qh, ql + 1>>
           ELSE IF qh + 1 < 2^25 THEN <<s, e + 3, qh + 1, 0>>
           ELSE <<s, e + 4, 2^24, 0>>
      ELSE <<s, e + 3, qh, ql>>

RoundNorm(s, n) == Round(s, n[1], n[2], n[3])

(* the integer n as a double *)
Num(n) ==
  IF n = 0 THEN Zero
  ELSE IF n < 0 THEN RoundNorm(1, NormL((0 - n) \div 2^28, (0 - n) % 2^28, 0))
  ELSE RoundNorm(0, NormL(n \div 2^28, n % 2^28, 0))

(* the sum of the 56-bit magnitudes xh:xl and y, rounded *)
SumMag(s, e, xh, xl, y) ==
  IF xh + y[1] + (xl + y[2]) \div 2^28 < 2^28
  THEN Round(s, xh + y[1] + (xl + y[2]) \div 2^28, (xl + y[2]) % 2^28, e)
  ELSE RoundNorm(s, ShiftR(xh + y[1] + (xl + y[2]) \div 2^28,
                           (xl + y[2]) % 2^28, 1) \o <<e + 1>>)

(* their difference, the first being the larger, rounded *)
DiffMag(s, e, xh, xl, y) ==
  IF xl >= y[2]
  THEN RoundNorm(s, NormL(xh - y[1], xl - y[2], e))
  ELSE RoundNorm(s, NormL(xh - y[1] - 1, xl - y[2] + 2^28, e))

(* |x| + |y| (same) or |x| - |y| with sign s, for |x| >= |y|, neither     *)
(* Zero: both mantissas with three more bits below, y's shifted to x's     *)
(* exponent                                                                *)
AddMag(x, y, s, same) ==
  IF same
  THEN SumMag(s, x[2] - 3, x[3] * 8 + x[4] \div 2^25, (x[4] % 2^25) * 8,
              ShiftR(y[3] * 8 + y[4] \div 2^25, (y[4] % 2^25) * 8, x[2] - y[2]))
  ELSE DiffMag(s, x[2] - 3, x[3] * 8 + x[4] \div 2^25, (x[4] % 2^25) * 8,
               ShiftR(y[3] * 8 + y[4] \div 2^25, (y[4] % 2^25) * 8, x[2] - y[2]))

(* a + b *)
Add(a, b) ==
  IF a[3] = 0 THEN b
  ELSE IF b[3] = 0 THEN a
  ELSE IF a[1] # b[1] /\ a[2] = b[2] /\ a[3] = b[3] /\ a[4] = b[4] THEN Zero
  ELSE IF MagGe(a, b) THEN AddMag(a, b, a[1], a[1] = b[1])
  ELSE AddMag(b, a, b[1], a[1] = b[1])

(* a - b *)
Sub(a, b) == Add(a, Neg(b))

(* the four 14-bit limbs of the mantissa, lowest first *)
Limbs(a) == <<a[4] % 2^14, a[4] \div 2^14, a[3] % 2^14, a[3] \div 2^14>>

(* the column sums of the product of two mantissas *)
MulCols(x, y) ==
  << x[1] * y[1],
     x[1] * y[2] + x[2] * y[1],
     x[1] * y[3] + x[2] * y[2] + x[3] * y[1],
     x[1] * y[4] + x[2] * y[3] + x[3] * y[2] + x[4] * y[1],
     x[2] * y[4] + x[3] * y[3] + x[4] * y[2],
     x[3] * y[4] + x[4] * y[3],
     x[4] * y[4] >>

(* the carries taken through: the limbs of the number, lowest first *)
RECURSIVE Carry(_, _, _, _)
Carry(c, i, k, out) ==
  IF i > Len(c) THEN Append(out, k)
  ELSE Carry(c, i + 1, (c[i] + k) \div 2^14, Append(out, (c[i] + k) % 2^14))

(* the product r (eight limbs, 105 or 106 bits) cut to 56 bits and rounded *)
MulPack(s, e, r) ==
  LET k == IF r[8] >= 128 THEN 8 ELSE 7
  IN  Round(s,
            r[8] * 2^(28 - k) + (r[7] * 2^14 + r[6]) \div 2^k,
            Sticky((r[6] % 2^k) * 2^(28 - k) + (r[5] * 2^14 + r[4]) \div 2^k,
                   r[4] % 2^k # 0 \/ r[3] # 0 \/ r[2] # 0 \/ r[1] # 0),
            e + 42 + k)

(* a * b *)
Mul(a, b) ==
  IF a[3] = 0 \/ b[3] = 0 THEN Zero
  ELSE MulPack(IF a[1] = b[1] THEN 0 ELSE 1, a[2] + b[2],
               Carry(MulCols(Limbs(a), Limbs(b)), 1, 0, << >>))

(* the number of bits of n, 1 <= n < 128 *)
Bits(n) ==
  IF n < 2 THEN 1 ELSE IF n < 4 THEN 2 ELSE IF n < 8 THEN 3 ELSE IF n < 16 THEN 4
  ELSE IF n < 32 THEN 5 ELSE IF n < 64 THEN 6 ELSE 7

(* long division of the limbs ds (lowest first) by n, from limb i down:   *)
(* the quotient's limbs, lowest first, then the remainder                 *)
RECURSIVE LongDiv(_, _, _, _, _)
LongDiv(ds, i, rem, n, q) ==
  IF i < 1 THEN Append(q, rem)
  ELSE LongDiv(ds, i - 1, (rem * 2^14 + ds[i]) % n, n,
               << (rem * 2^14 + ds[i]) \div n >> \o q)

DivNorm(s, n, rem) == Round(s, n[1], Sticky(n[2], rem # 0), n[3])

(* the quotient q (five limbs, 55 or 56 bits, then the remainder) rounded *)
DivRound(s, e, q) ==
  DivNorm(s, NormL(q[4] * 2^14 + q[3], q[2] * 2^14 + q[1], e), q[6])

(* a / n for an integer n, 1 <= n < 128: the mantissa, Bits(n) + 2 bits   *)
(* to the left, divided by n                                              *)
DivBy(a, n) ==
  IF a[3] = 0 THEN Zero
  ELSE DivRound(a[1], a[2] - (Bits(n) + 2),
                LongDiv(Carry(<< Limbs(a)[1] * 2^(Bits(n) + 2),
                                 Limbs(a)[2] * 2^(Bits(n) + 2),
                                 Limbs(a)[3] * 2^(Bits(n) + 2),
                                 Limbs(a)[4] * 2^(Bits(n) + 2) >>, 1, 0, << >>),
                        5, 0, n, << >>))

(* the integer part of (h * 2^28 + l) / 2^k, k > 0, and whether a         *)
(* fraction is left                                                       *)
IntPart(h, l, k) ==
  IF k < 28 THEN <<(h \div 2^k) * 2^28 + (h % 2^k) * 2^(28 - k) + l \div 2^k,
                   l % 2^k # 0>>
  ELSE IF k < 53 THEN <<h \div 2^(k - 28), h % 2^(k - 28) # 0 \/ l # 0>>
  ELSE <<0, TRUE>>

FloorOf(s, ip) ==
  IF s = 0 THEN ip[1] ELSE IF ip[2] THEN 0 - ip[1] - 1 ELSE 0 - ip[1]

(* Math.floor(a), as an integer *)
Floor(a) ==
  IF a[3] = 0 THEN 0
  ELSE IF a[2] >= 0
    THEN (IF a[1] = 0 THEN 1 ELSE -1) * (a[3] * 2^28 + a[4]) * 2^a[2]
  ELSE FloorOf(a[1], IntPart(a[3], a[4], 0 - a[2]))

(* Math.ceil(a), as an integer *)
Ceil(a) == 0 - Floor(Neg(a))

(* Math.max and Math.min of two doubles *)
MathMax(a, b) == IF Le(b, a) THEN a ELSE b
MathMin(a, b) == IF Le(a, b) THEN a ELSE b

(* Math.cos(a * Math.PI / 2) and Math.sin(a * Math.PI / 2) for a in 0..3: *)
(* 1, 6.123233995736766e-17, -1, -1.8369701987210297e-16 and              *)
(* 0, 1, 1.2246467991473532e-16, -1                                       *)
Cos(a) ==
  CASE a % 4 = 0 -> Num(1)
    [] a % 4 = 1 -> <<0, -106, 18506339, 51665927>>
    [] a % 4 = 2 -> Num(-1)
    [] OTHER -> <<1, -105, 27759508, 211716618>>

Sin(a) ==
  CASE a % 4 = 0 -> Zero
    [] a % 4 = 1 -> Num(1)
    [] a % 4 = 2 -> <<0, -105, 18506339, 51665927>>
    [] OTHER -> Num(-1)

(* m / Math.hypot(1, 1) for m = 1 or -1: Math.hypot(1, 1) is              *)
(* 1.4142135623730951 and 1 / 1.4142135623730951 is 0.7071067811865475    *)
OverHypot(m) ==
  IF m < 0 THEN <<1, -53, 23726566, 109001676>> ELSE <<0, -53, 23726566, 109001676>>

(* ------------------------------------------------------------------ *)
(* Game constants (part_000, lines 18-43)                             *)
(* ------------------------------------------------------------------ *)
(* TICK_RATE, TILE, the grid size, ERASE_RADIUS (a radius handed to a     *)
(* paint function) and ERASE_COST_PER_TILE (a divisor and a factor of a   *)
(* count) are integers; the others are doubles.                           *)
TICK_RATE == 30
DT == DivBy(Num(1), TICK_RATE)
MAP_W == Num(1200)
MAP_H == Num(800)
PLAYER_RADIUS == Num(16)
PLAYER_MOVE_SPEED == Num(220)
BULLET_SPEED == Num(700)
BULLET_RADIUS == Num(4)
(* the literal 0.15: the double nearest to 15/100 *)
FIRE_COOLDOWN == DivBy(Num(15), 100)
RESPAWN_TIME == 0
MAX_HP == Num(100)
(* the literal 0.2 *)
HP_REGEN_PER_SEC == DivBy(Num(2), 10)
MAX_ERASE == Num(100)
ERASE_REGEN_PER_SEC == Num(1)
ERASE_RADIUS == 60
ERASE_COST_PER_TILE == 1
PAINT_DAMAGE_PER_SEC == Num(2)
HIT_DAMAGE == Num(5)
TILE == 20
GRID_W == Ceil(DivBy(MAP_W, TILE))
GRID_H == Ceil(DivBy(MAP_H, TILE))
(* the literal 1.2 of line 297 *)
BULLET_LIFE == DivBy(Num(12), 10)
SUBSTEPS == 3
SEARCH_ITERS == 6
(* PLAYER_RADIUS + 8 (lines 292-293) and the 140 of lines 303-304 *)
MUZZLE == Add(PLAYER_RADIUS, Num(8))
AIM_DIST == Num(140)
(* the radii of lines 324, 336 and 347 *)
R_TIMEOUT == 18
R_WALL == 20
R_HIT == 16

(* the steps of a tick: HP_REGEN_PER_SEC*DT, ERASE_REGEN_PER_SEC*DT and   *)
(* PAINT_DAMAGE_PER_SEC*DT (lines 276, 277, 283)                          *)
HpRegenStep == Mul(HP_REGEN_PER_SEC, DT)
EraseRegenStep == Mul(ERASE_REGEN_PER_SEC, DT)
PaintDamageStep == Mul(PAINT_DAMAGE_PER_SEC, DT)

(* Walls: rectangles <<x, y, w, h>> (lines 46-52); 0.5 is 1/2 *)
WALLS ==
  << << Sub(Mul(MAP_W, DivBy(Num(1), 2)), Num(40)),
        Sub(Mul(MAP_H, DivBy(Num(1), 2)), Num(150)), Num(80), Num(300) >>,
     << Num(200), Num(150), Num(300), Num(30) >>,
     << Sub(MAP_W, Num(500)), Sub(MAP_H, Num(200)), Num(300), Num(30) >>,
     << Sub(MAP_W, Num(350)), Num(120), Num(30), Num(260) >>,
     << Num(150), Sub(MAP_H, Num(320)), Num(30), Num(250) >> >>

(* ------------------------------------------------------------------ *)
(* Utility and geometry (lines 60-92)                                 *)
(* ------------------------------------------------------------------ *)
Max(a, b) == IF a >= b THEN a ELSE b
Min(a, b) == IF a <= b THEN a ELSE b

clamp(v, a, b) == MathMax(a, MathMin(b, v))

(* dx*dx + dy*dy <= rr *)
WithinDist(dx, dy, rr) == Le(Add(Mul(dx, dx), Mul(dy, dy)), rr)

rectsOverlap(cx, cy, r, rx, ry, rw, rh) ==
  WithinDist(Sub(cx, clamp(cx, rx, Add(rx, rw))),
             Sub(cy, clamp(cy, ry, Add(ry, rh))), Mul(r, r))

collidesWithWalls(x, y, r) ==
  \/ \E i \in 1..Len(WALLS) :
        rectsOverlap(x, y, r, WALLS[i][1], WALLS[i][2], WALLS[i][3], WALLS[i][4])
  \/ Lt(Sub(x, r), Zero)
  \/ Lt(MAP_W, Add(x, r))
  \/ Lt(Sub(y, r), Zero)
  \/ Lt(MAP_H, Add(y, r))

(* clamp(Math.floor(v / TILE), 0, n - 1), on integers *)
GridIndex(v, n) == Max(0, Min(n - 1, Floor(DivBy(v, TILE))))

pointToGrid(x, y) == << GridIndex(x, GRID_W), GridIndex(y, GRID_H) >>

teamId(team) == IF team = "red" THEN 1 ELSE 2
enemyTeamId(team) == IF team = "red" THEN 2 ELSE 1

(* ------------------------------------------------------------------ *)
(* Paint grid (lines 57, 97-134)                                      *)
(* ------------------------------------------------------------------ *)
(* The grid paint[yy][xx] is a sequence of GRID_H rows of GRID_W cells;    *)
(* the code's indices count from 0, a sequence's from 1.                   *)
Rows == 0..(GRID_H - 1)
Cols == 0..(GRID_W - 1)

RECURSIVE Fill(_, _)
Fill(n, v) ==
  IF n = 0 THEN << >>
  ELSE IF n = 1 THEN << v >>
  ELSE Fill(n \div 2, v) \o Fill(n - n \div 2, v)

(* line 57: Array.from({length: GRID_H}, () => new Uint8Array(GRID_W)) *)
EmptyPaint == Fill(GRID_H, Fill(GRID_W, 0))

Cell(grid, xx, yy) == grid[yy + 1][xx + 1]

(* a variant that paints only unowned cells *)
SetCellIfFree(grid, xx, yy, v) ==
  IF v # 0 /\ grid[yy + 1][xx + 1] # 0 THEN grid
  ELSE [grid EXCEPT ![yy + 1][xx + 1] = v]

(* lines 108 and 126: paint[yy][xx] = v *)
SetCell(grid, xx, yy, v) == [grid EXCEPT ![yy + 1][xx + 1] = v]

(* Math.ceil(r / TILE) for an integer r *)
GridRadius(r) == (r + TILE - 1) \div TILE

(* the test of lines 107 and 124 for tile (xx, yy): its centre is         *)
(* (xx*TILE + TILE/2, yy*TILE + TILE/2), r an integer                     *)
TileInCircle(xx, yy, x, y, r) ==
  WithinDist(Sub(Num(xx * TILE + TILE \div 2), x),
             Sub(Num(yy * TILE + TILE \div 2), y), Num(r * r))

(* r, with v (a sequence or a record) evaluated first. An operator's       *)
(* argument is evaluated where it is first used: a loop that only hands    *)
(* its value on to the next round would evaluate the rounds nested in      *)
(* each other, last round outermost.                                       *)
After(v, r) == IF DOMAIN v # {} THEN r ELSE r

(* The inner loop of placePaintCircle (lines 102-110): row yy, columns     *)
(* gx-gr+i for i = i..2*gr; args = <<r, tid>>.                             *)
RECURSIVE PlaceRow(_, _, _, _, _, _, _, _)
PlaceRow(grid, i, yy, gx, gr, x, y, args) ==
  LET xx == gx - gr + i
  IN  After(grid,
        IF i > 2 * gr THEN grid
        ELSE IF xx < 0 \/ xx >= GRID_W
          THEN PlaceRow(grid, i + 1, yy, gx, gr, x, y, args)
        ELSE IF TileInCircle(xx, yy, x, y, args[1])
          THEN PlaceRow(SetCell(grid, xx, yy, args[2]), i + 1, yy, gx, gr, x, y, args)
        ELSE PlaceRow(grid, i + 1, yy, gx, gr, x, y, args))

(* The outer loop of placePaintCircle (lines 100-111): rows gy-gr+j for    *)
(* j = j..2*gr, top to bottom.                                             *)
RECURSIVE PlaceLoop(_, _, _, _, _, _, _, _)
PlaceLoop(grid, j, gx, gy, gr, x, y, args) ==
  LET yy == gy - gr + j
  IN  After(grid,
        IF j > 2 * gr THEN grid
        ELSE IF yy < 0 \/ yy >= GRID_H
          THEN PlaceLoop(grid, j + 1, gx, gy, gr, x, y, args)
        ELSE PlaceLoop(PlaceRow(grid, 0, yy, gx, gr, x, y, args),
                       j + 1, gx, gy, gr, x, y, args))

placePaintCircle(grid, x, y, r, tid) ==
  PlaceLoop(grid, 0, pointToGrid(x, y)[1], pointToGrid(x, y)[2], GridRadius(r),
            x, y, <<r, tid>>)

(* One round of the inner loop of erasePaintCircle (lines 121-130), for    *)
(* a variant that never takes the return of line 128 *)
EraseTileUnbounded(st, xx, yy, x, y, args) ==
  IF xx < 0 \/ xx >= GRID_W THEN st
  ELSE IF Cell(st.grid, xx, yy) # 0 /\ TileInCircle(xx, yy, x, y, args[1])
    THEN [grid |-> SetCell(st.grid, xx, yy, 0), erased |-> st.erased + 1,
          done |-> FALSE]
  ELSE st

(* tile (xx, yy); st = [grid, erased, done], done once the return of line  *)
(* 128 was taken; args = <<r, maxTiles>>.  The two tests of lines 124-125  *)
(* change nothing, so the one on the cell is made first.                   *)
EraseTile(st, xx, yy, x, y, args) ==
  IF xx < 0 \/ xx >= GRID_W THEN st
  ELSE IF Cell(st.grid, xx, yy) # 0 /\ TileInCircle(xx, yy, x, y, args[1])
    THEN [grid |-> SetCell(st.grid, xx, yy, 0), erased |-> st.erased + 1,
          done |-> (st.erased + 1 >= args[2])]
  ELSE st

(* The inner loop of erasePaintCircle (lines 120-131): row yy, columns     *)
(* gx-gr+i for i = i..2*gr.                                                *)
RECURSIVE EraseRow(_, _, _, _, _, _, _, _)
EraseRow(st, i, yy, gx, gr, x, y, args) ==
  IF st.done \/ i > 2 * gr THEN st
  ELSE EraseRow(EraseTile(st, gx - gr + i, yy, x, y, args),
                i + 1, yy, gx, gr, x, y, args)

(* One round of the outer loop of erasePaintCircle (lines 119-131), row yy *)
EraseRowAt(st, yy, gx, gr, x, y, args) ==
  IF yy < 0 \/ yy >= GRID_H THEN st ELSE EraseRow(st, 0, yy, gx, gr, x, y, args)

(* The outer loop of erasePaintCircle (lines 118-132): rows gy-gr+j for    *)
(* j = j..2*gr, top to bottom, left once the return of line 128 was taken. *)
RECURSIVE EraseLoop(_, _, _, _, _, _, _, _)
EraseLoop(st, j, gx, gy, gr, x, y, args) ==
  IF st.done \/ j > 2 * gr THEN st
  ELSE EraseLoop(EraseRowAt(st, gy - gr + j, gx, gr, x, y, args),
                 j + 1, gx, gy, gr, x, y, args)

(* returns [grid, erased]: the grid afterwards and the return value *)
erasePaintCircle(grid, x, y, r, maxTiles) ==
  LET g == pointToGrid(x, y)
      gr == GridRadius(r)
      st == EraseLoop([grid |-> grid, erased |-> 0, done |-> FALSE],
                      0, g[1], g[2], gr, x, y, <<r, maxTiles>>)
  IN  [grid |-> st.grid, erased |-> st.erased]

(* ------------------------------------------------------------------ *)
(* Game state (lines 139-180)                                         *)
(* ------------------------------------------------------------------ *)
(* The world is the record [players, bullets, paint, log, since, nextId].  *)
(*   players  the Map socketId -> player as the sequence of its values in  *)
(*            insertion order                                               *)
(*   bullets  the bullets array                                             *)
(*   paint    the grid paint[yy][xx]                                        *)
(*   log      what the last gameTick (or the last paint call made on its   *)
(*            own) did, in order (observation only)                         *)
(*   since    per entry of players (same index), the ticks since its last  *)
(*            bullet spawn, capped at SinceCap (observation only)           *)
(*   nextId   the next fresh socket id                                      *)
SinceCap == 9

(* the state after construction (lines 57, 139-140) *)
EmptyWorld ==
  [players |-> << >>, bullets |-> << >>, paint |-> EmptyPaint, log |-> << >>,
   since |-> << >>, nextId |-> 1]

NoInputs ==
  [up |-> FALSE, down |-> FALSE, left |-> FALSE, right |-> FALSE,
   lmb |-> FALSE, rmb |-> FALSE, angle |-> 0]

spawnPosFor(team) ==
  IF team = "red" THEN [x |-> Num(120), y |-> Sub(MAP_H, Num(120))]
  ELSE IF team = "blue" THEN [x |-> Sub(MAP_W, Num(120)), y |-> Num(120)]
  ELSE [x |-> DivBy(MAP_W, 2), y |-> DivBy(MAP_H, 2)]

(* a variant that hands out the slots by head count *)
assignTeamByCount(ps) ==
  IF Len(ps) = 0 THEN "red" ELSE IF Len(ps) = 1 THEN "blue" ELSE "none"

(* a variant that never turns a connection away *)
assignTeamNoSpectators(ps) ==
  IF \E i \in 1..Len(ps) : ps[i].role = "player" /\ ps[i].team = "red"
  THEN "blue" ELSE "red"

(* the result null is written "none" *)
assignTeam(ps) ==
  LET redTaken == \E i \in 1..Len(ps) : ps[i].role = "player" /\ ps[i].team = "red"
      blueTaken == \E i \in 1..Len(ps) : ps[i].role = "player" /\ ps[i].team = "blue"
  IN  IF ~redTaken THEN "red" ELSE IF ~blueTaken THEN "blue" ELSE "none"

makePlayer(ps, socketId) ==
  LET team == assignTeam(ps)
      role == IF team # "none" THEN "player" ELSE "spectator"
      spawn == spawnPosFor(IF team # "none" THEN team ELSE "red")
  IN  [id |-> socketId, role |-> role, team |-> team,
       x |-> spawn.x, y |-> spawn.y, angle |-> 0, vx |-> Zero, vy |-> Zero,
       hp |-> MAX_HP, erase |-> MAX_ERASE, alive |-> TRUE,
       inputs |-> NoInputs, fireCooldown |-> Zero, respawnTimer |-> Zero]

IndexOf(ps, id) ==
  IF \E i \in 1..Len(ps) : ps[i].id = id
  THEN CHOOSE i \in 1..Len(ps) : ps[i].id = id
  ELSE 0

(* splice(i, 1) *)
RemoveAt(s, i) == SubSeq(s, 1, i - 1) \o SubSeq(s, i + 1, Len(s))

(* ------------------------------------------------------------------ *)
(* Sockets (lines 185-204)                                            *)
(* ------------------------------------------------------------------ *)
(* io.on("connection") *)
OnConnection(w) ==
  [w EXCEPT !.players = Append(w.players, makePlayer(w.players, w.nextId)),
            !.since = Append(w.since, SinceCap),
            !.nextId = w.nextId + 1]

(* { ...old, ...data }: the fields of data over those of old *)
Pick(old, data, f) == IF f \in DOMAIN data THEN data[f] ELSE old[f]

(* a variant that replaces the record: absent fields fall back to defaults *)
MergeReplace(old, data) ==
  [up |-> Pick(NoInputs, data, "up"), down |-> Pick(NoInputs, data, "down"),
   left |-> Pick(NoInputs, data, "left"), right |-> Pick(NoInputs, data, "right"),
   lmb |-> Pick(NoInputs, data, "lmb"), rmb |-> Pick(NoInputs, data, "rmb"),
   angle |-> Pick(NoInputs, data, "angle")]

Merge(old, data) ==
  [up |-> Pick(old, data, "up"), down |-> Pick(old, data, "down"),
   left |-> Pick(old, data, "left"), right |-> Pick(old, data, "right"),
   lmb |-> Pick(old, data, "lmb"), rmb |-> Pick(old, data, "rmb"),
   angle |-> Pick(old, data, "angle")]

(* socket.on("input"): pl.inputs = { ...pl.inputs, ...data } *)
OnInput(w, id, data) ==
  LET i == IndexOf(w.players, id)
  IN  IF i = 0 THEN w
      ELSE [w EXCEPT !.players[i].inputs = Merge(w.players[i].inputs, data)]

(* a variant that hands a freed slot to the longest-waiting spectator *)
OnDisconnectPromote(w, id) ==
  LET i == IndexOf(w.players, id)
      rest == IF i = 0 THEN w.players ELSE RemoveAt(w.players, i)
      sp == { j \in 1..Len(rest) : rest[j].role = "spectator" }
      first == IF sp = {} THEN 0 ELSE CHOOSE j \in sp : \A m \in sp : j <= m
  IN  IF i = 0 THEN w
      ELSE IF first = 0 \/ assignTeam(rest) = "none"
      THEN [w EXCEPT !.players = rest, !.since = RemoveAt(w.since, i)]
      ELSE [w EXCEPT !.players = [rest EXCEPT ![first].role = "player",
                                              ![first].team = assignTeam(rest)],
                     !.since = RemoveAt(w.since, i)]

(* socket.on("disconnect") *)
OnDisconnect(w, id) ==
  LET i == IndexOf(w.players, id)
  IN  IF i = 0 THEN w
      ELSE [w EXCEPT !.players = RemoveAt(w.players, i),
                     !.since = RemoveAt(w.since, i)]

(* ------------------------------------------------------------------ *)
(* Game loop: the player phase of gameTick (lines 221-317)            *)
(* ------------------------------------------------------------------ *)
(* (m / mag) * spd * DT of lines 242-245 for m in {-1, 0, 1}: mag is      *)
(* Math.hypot(1, 1) on a diagonal and 1 otherwise (on an axis, and for no *)
(* move, where Math.hypot(0, 0) || 1 is 1)                                *)
MoveDelta(m, diagonal) ==
  Mul(Mul(IF diagonal THEN OverHypot(m) ELSE Num(m), PLAYER_MOVE_SPEED), DT)

RECURSIVE Bisect(_, _, _, _, _)

(* lines 255-256: one round of the search, mid = (lo + hi) / 2 *)
BisectAt(lo, hi, mid, other, horizontal, i) ==
  IF (IF horizontal
      THEN collidesWithWalls(mid, other, PLAYER_RADIUS)
      ELSE collidesWithWalls(other, mid, PLAYER_RADIUS))
  THEN Bisect(lo, mid, other, horizontal, i - 1)
  ELSE Bisect(mid, hi, other, horizontal, i - 1)

(* the binary search of lines 253-258 (horizontal: the X pass) *)
Bisect(lo, hi, other, horizontal, i) ==
  IF i = 0 THEN lo
  ELSE BisectAt(lo, hi, DivBy(Add(lo, hi), 2), other, horizontal, i)

(* a variant without the collision test of the X pass *)
ResolveXUnchecked(px, py, nx0) == nx0

(* lines 249-259: the X pass, the resolved nx *)
ResolveX(px, py, nx0) ==
  IF collidesWithWalls(nx0, py, PLAYER_RADIUS)
  THEN Bisect(px, nx0, py, TRUE, SEARCH_ITERS) ELSE nx0

(* lines 261-269: the Y pass, with the X already resolved *)
ResolveY(py, nx, ny0) ==
  IF collidesWithWalls(nx, ny0, PLAYER_RADIUS)
  THEN Bisect(py, ny0, nx, FALSE, SEARCH_ITERS) ELSE ny0

(* lines 237-259: the X resolved and the proposed ny for direction        *)
(* (mx, my)                                                               *)
MoveAlong(px, py, mx, my) ==
  << ResolveX(px, py, Add(px, MoveDelta(mx, mx # 0 /\ my # 0))),
     Add(py, MoveDelta(my, mx # 0 /\ my # 0)) >>

MoveSettle(py, prop) == << prop[1], ResolveY(py, prop[1], prop[2]) >>

(* lines 237-240: (pos ? 1 : 0) - (neg ? 1 : 0) *)
Dir(pos, neg) == (IF pos THEN 1 ELSE 0) - (IF neg THEN 1 ELSE 0)

(* lines 236-270: the position after movement, <<x, y>> *)
MoveResolve(px, py, inpt) ==
  MoveSettle(py, MoveAlong(px, py, Dir(inpt.right, inpt.left), Dir(inpt.down, inpt.up)))

(* a variant without the clamp *)
RegenHpUnclamped(hp) == Add(hp, HpRegenStep)

(* lines 275-277 *)
RegenHp(hp) == clamp(Add(hp, HpRegenStep), Zero, MAX_HP)
RegenErase(e) == clamp(Add(e, EraseRegenStep), Zero, MAX_ERASE)

(* a variant that tests for the player's own team id *)
PaintDamageOwnTeam(hp, tileVal, team) ==
  IF tileVal = teamId(team)
  THEN clamp(Sub(hp, PaintDamageStep), Zero, MAX_HP)
  ELSE hp

(* lines 280-284 *)
PaintDamage(hp, tileVal, team) ==
  IF tileVal = enemyTeamId(team)
  THEN clamp(Sub(hp, PaintDamageStep), Zero, MAX_HP)
  ELSE hp

(* a variant that ignores the cooldown *)
CanFireAlways(inpt, cd) == inpt.lmb

(* line 288 *)
CanFire(inpt, cd) == inpt.lmb /\ Le(cd, Zero)

(* a variant whose bullets start with one tick more of life *)
NewBulletLongLife(p) ==
  [x |-> Add(p.x, Mul(Cos(p.angle), MUZZLE)),
   y |-> Add(p.y, Mul(Sin(p.angle), MUZZLE)),
   vx |-> Mul(Cos(p.angle), BULLET_SPEED), vy |-> Mul(Sin(p.angle), BULLET_SPEED),
   team |-> p.team, life |-> Add(BULLET_LIFE, DT)]

(* lines 290-298 *)
NewBullet(p) ==
  [x |-> Add(p.x, Mul(Cos(p.angle), MUZZLE)),
   y |-> Add(p.y, Mul(Sin(p.angle), MUZZLE)),
   vx |-> Mul(Cos(p.angle), BULLET_SPEED), vy |-> Mul(Sin(p.angle), BULLET_SPEED),
   team |-> p.team, life |-> BULLET_LIFE]

(* a variant that revives the player where it died *)
RespawnStepInPlace(w, i) ==
  LET p == w.players[i]
      rt == Sub(p.respawnTimer, DT)
  IN  IF Le(rt, Zero)
      THEN [w EXCEPT !.players[i] =
                       [p EXCEPT !.respawnTimer = rt, !.vx = Zero, !.vy = Zero,
                                 !.hp = MAX_HP, !.alive = TRUE],
                     !.log = Append(w.log, [k |-> "respawn", id |-> p.id])]
      ELSE [w EXCEPT !.players[i].respawnTimer = rt]

(* lines 224-233: a dead player *)
RespawnStep(w, i) ==
  LET p == w.players[i]
      rt == Sub(p.respawnTimer, DT)
      s == spawnPosFor(p.team)
  IN  IF Le(rt, Zero)
      THEN [w EXCEPT !.players[i] =
                       [p EXCEPT !.respawnTimer = rt, !.x = s.x, !.y = s.y,
                                 !.vx = Zero, !.vy = Zero, !.hp = MAX_HP, !.alive = TRUE],
                     !.log = Append(w.log, [k |-> "respawn", id |-> p.id])]
      ELSE [w EXCEPT !.players[i].respawnTimer = rt]

(* lines 303-305: the aim point and the tile budget *)
AimX(p) == Add(p.x, Mul(Cos(p.angle), AIM_DIST))
AimY(p) == Add(p.y, Mul(Sin(p.angle), AIM_DIST))
Budget(e) == Floor(DivBy(e, ERASE_COST_PER_TILE))

(* line 308 *)
Charged(e, removed) ==
  clamp(Sub(e, Num(removed * ERASE_COST_PER_TILE)), Zero, MAX_ERASE)

(* lines 301-316: erase and the death check, for player record p1 whose    *)
(* movement, regeneration, paint damage and fire are done; res is the      *)
(* outcome of erasePaintCircle (or the grid as it was), evs the log so far *)
EraseAndDeath(w, i, p1, erasing, res, evs) ==
  [w EXCEPT
     !.players[i] =
        [p1 EXCEPT
           !.erase = IF erasing THEN Charged(p1.erase, res.erased) ELSE p1.erase,
           !.alive = IF Le(p1.hp, Zero) THEN FALSE ELSE p1.alive,
           !.respawnTimer = IF Le(p1.hp, Zero) THEN Num(RESPAWN_TIME)
                            ELSE p1.respawnTimer],
     !.paint = res.grid,
     !.log = w.log \o evs
               \o (IF erasing
                   THEN << [k |-> "erase", id |-> p1.id,
                            budget |-> Budget(p1.erase),
                            removed |-> res.erased,
                            e |-> Charged(p1.erase, res.erased),
                            x |-> AimX(p1), y |-> AimY(p1),
                            before |-> w.paint, after |-> res.grid] >>
                   ELSE << >>)
               \o (IF Le(p1.hp, Zero) THEN << [k |-> "death", id |-> p1.id] >>
                   ELSE << >>)]

(* a variant without the test of the tile budget *)
ErasingAnyBudget(p1) == p1.inputs.rmb /\ Lt(Zero, p1.erase)

(* lines 302-306 *)
Erasing(p1) == p1.inputs.rmb /\ Lt(Zero, p1.erase) /\ Budget(p1.erase) > 0

(* line 307 *)
EraseResult(grid, p1) ==
  IF Erasing(p1)
  THEN erasePaintCircle(grid, AimX(p1), AimY(p1), ERASE_RADIUS, Budget(p1.erase))
  ELSE [grid |-> grid, erased |-> 0]

(* lines 286-299: fire, for player record p1 (cooldown already decremented) *)
FireStep(w, i, p1, fire, evUpd) ==
  EraseAndDeath(
    [w EXCEPT !.bullets = IF fire THEN Append(w.bullets, NewBullet(p1)) ELSE w.bullets],
    i,
    [p1 EXCEPT !.fireCooldown = IF fire THEN FIRE_COOLDOWN ELSE p1.fireCooldown],
    Erasing(p1),
    EraseResult(w.paint, p1),
    << evUpd >> \o (IF fire
                    THEN << [k |-> "spawn", id |-> p1.id, team |-> p1.team,
                             x |-> NewBullet(p1).x, y |-> NewBullet(p1).y,
                             gap |-> w.since[i] + 1] >>
                    ELSE << >>))

(* lines 270-287: position, angle, regeneration, paint damage, cooldown *)
Vitals(w, i, p, pos, tileVal) ==
  FireStep(w, i,
    [p EXCEPT !.x = pos[1], !.y = pos[2], !.angle = p.inputs.angle,
              !.hp = PaintDamage(RegenHp(p.hp), tileVal, p.team),
              !.erase = RegenErase(p.erase),
              !.fireCooldown = MathMax(Zero, Sub(p.fireCooldown, DT))],
    CanFire(p.inputs, MathMax(Zero, Sub(p.fireCooldown, DT))),
    [k |-> "upd", id |-> p.id, team |-> p.team, h0 |-> p.hp, hr |-> RegenHp(p.hp),
     tile |-> tileVal, hd |-> PaintDamage(RegenHp(p.hp), tileVal, p.team),
     e0 |-> p.erase, er |-> RegenErase(p.erase),
     cd |-> MathMax(Zero, Sub(p.fireCooldown, DT)), x0 |-> p.x, y0 |-> p.y,
     mx |-> Dir(p.inputs.right, p.inputs.left),
     my |-> Dir(p.inputs.down, p.inputs.up),
     x |-> pos[1], y |-> pos[2]])

(* lines 280-281 *)
TileAt(grid, pos) ==
  Cell(grid, pointToGrid(pos[1], pos[2])[1], pointToGrid(pos[1], pos[2])[2])

Moved(w, i, p, pos) == Vitals(w, i, p, pos, TileAt(w.paint, pos))

(* lines 235-316: an alive player *)
AliveStep(w, i) ==
  Moved(w, i, w.players[i],
        MoveResolve(w.players[i].x, w.players[i].y, w.players[i].inputs))

(* a variant without the role test *)
PlayerStepAnyRole(w, i) ==
  IF ~w.players[i].alive THEN RespawnStep(w, i) ELSE AliveStep(w, i)

PlayerStep(w, i) ==
  IF w.players[i].role # "player" THEN w
  ELSE IF ~w.players[i].alive THEN RespawnStep(w, i)
  ELSE AliveStep(w, i)

RECURSIVE PlayersLoop(_, _)
PlayersLoop(w, i) ==
  IF i > Len(w.players) THEN w ELSE PlayersLoop(PlayerStep(w, i), i + 1)

(* ------------------------------------------------------------------ *)
(* Game loop: the bullet phase of gameTick (lines 319-354)            *)
(* ------------------------------------------------------------------ *)
(* a variant without the role test *)
EligibleAnyRole(p, b) == p.alive /\ p.team # b.team

(* a variant without the alive test *)
EligibleDead(p, b) == p.role = "player" /\ p.team # b.team

(* line 342: may bullet b damage player p *)
Eligible(p, b) == p.role = "player" /\ p.alive /\ p.team # b.team

(* lines 343-344: d2 <= (PLAYER_RADIUS + BULLET_RADIUS) ** 2 *)
InHitRange(p, x, y) ==
  WithinDist(Sub(p.x, x), Sub(p.y, y),
             Mul(Add(PLAYER_RADIUS, BULLET_RADIUS), Add(PLAYER_RADIUS, BULLET_RADIUS)))

(* the first player, in Map order, the inner loop of lines 341-352 stops at *)
HitIndex(ps, b) ==
  LET c == { j \in 1..Len(ps) : Eligible(ps[j], b) /\ InHitRange(ps[j], b.x, b.y) }
  IN  IF c = {} THEN 0 ELSE CHOOSE j \in c : \A m \in c : j <= m

(* a variant that looks at the players before the walls *)
OutcomePlayersFirst(ps, b1) ==
  IF HitIndex(ps, b1) # 0 THEN "hit"
  ELSE IF collidesWithWalls(b1.x, b1.y, BULLET_RADIUS) THEN "wall"
  ELSE "fly"

(* lines 335-352: what a sub-step that ends at bullet record b1 meets: the  *)
(* wall test comes first, the players are looked at only when it fails     *)
Outcome(ps, b1) ==
  IF collidesWithWalls(b1.x, b1.y, BULLET_RADIUS) THEN "wall"
  ELSE IF HitIndex(ps, b1) # 0 THEN "hit"
  ELSE "fly"

RECURSIVE SubSteps(_, _, _, _)

(* lines 335-352: the sub-step s that took bullet i (record b before it)   *)
(* to b1 met `met`, and player j if it was a hit                           *)
SubStepEnd(w, i, b, b1, s, met, j) ==
  IF met = "wall"
  THEN [w EXCEPT
          !.paint = placePaintCircle(w.paint, b1.x, b1.y, R_WALL, teamId(b.team)),
          !.bullets = RemoveAt(w.bullets, i),
          !.log = w.log \o << [k |-> "step", team |-> b.team, life |-> b.life,
                               s |-> s, x |-> b1.x, y |-> b1.y],
                              [k |-> "stamp", team |-> b.team, life |-> b.life,
                               r |-> R_WALL, tid |-> teamId(b.team),
                               x |-> b1.x, y |-> b1.y],
                              [k |-> "remove", team |-> b.team, life |-> b.life,
                               why |-> "wall"] >>]
  ELSE IF met = "hit"
  THEN [w EXCEPT
          !.players[j].hp = clamp(Sub(w.players[j].hp, HIT_DAMAGE), Zero, MAX_HP),
          !.paint = placePaintCircle(w.paint, b1.x, b1.y, R_HIT, teamId(b.team)),
          !.bullets = RemoveAt(w.bullets, i),
          !.log = w.log \o << [k |-> "step", team |-> b.team, life |-> b.life,
                               s |-> s, x |-> b1.x, y |-> b1.y],
                              [k |-> "hit", team |-> b.team, life |-> b.life,
                               id |-> w.players[j].id, h0 |-> w.players[j].hp,
                               h1 |-> clamp(Sub(w.players[j].hp, HIT_DAMAGE), Zero, MAX_HP)],
                              [k |-> "stamp", team |-> b.team, life |-> b.life,
                               r |-> R_HIT, tid |-> teamId(b.team),
                               x |-> b1.x, y |-> b1.y],
                              [k |-> "remove", team |-> b.team, life |-> b.life,
                               why |-> "hit"] >>]
  ELSE SubSteps([w EXCEPT !.log = Append(w.log,
                                    [k |-> "step", team |-> b.team, life |-> b.life,
                                     s |-> s, x |-> b1.x, y |-> b1.y])],
                i, b1, s + 1)

(* lines 331-332: b.x += (b.vx * DT/steps), b.y += (b.vy * DT/steps) *)
Advance(b) ==
  [b EXCEPT !.x = Add(b.x, DivBy(Mul(b.vx, DT), SUBSTEPS)),
            !.y = Add(b.y, DivBy(Mul(b.vy, DT), SUBSTEPS))]

SubStepAt(w, i, b, b1, s) ==
  SubStepEnd(w, i, b, b1, s, Outcome(w.players, b1), HitIndex(w.players, b1))

(* lines 330-353: sub-steps s, s+1, ... of bullet i, whose record so far is b *)
SubSteps(w, i, b, s) ==
  IF s >= SUBSTEPS THEN [w EXCEPT !.bullets[i] = b]
  ELSE SubStepAt(w, i, b, Advance(b), s)

(* lines 323-327, then the sub-steps: bullet i, b its record after line 322 *)
BulletAged(w, i, b) ==
  IF Le(b.life, Zero)
  THEN [w EXCEPT
          !.paint = placePaintCircle(w.paint, b.x, b.y, R_TIMEOUT, teamId(b.team)),
          !.bullets = RemoveAt(w.bullets, i),
          !.log = w.log \o << [k |-> "life", team |-> b.team, life |-> b.life],
                              [k |-> "stamp", team |-> b.team, life |-> b.life,
                               r |-> R_TIMEOUT, tid |-> teamId(b.team),
                               x |-> b.x, y |-> b.y],
                              [k |-> "remove", team |-> b.team, life |-> b.life,
                               why |-> "timeout"] >>]
  ELSE SubSteps([w EXCEPT !.log = Append(w.log, [k |-> "life", team |-> b.team,
                                                 life |-> b.life])],
                i, b, 0)

(* lines 321-353: bullet i of the array *)
BulletStep(w, i) ==
  BulletAged(w, i, [w.bullets[i] EXCEPT !.life = Sub(w.bullets[i].life, DT)])

(* a variant whose loop stops one short: i > 0 for i >= 0 *)
RECURSIVE BulletsLoopShort(_, _)
BulletsLoopShort(w, i) ==
  After(w, IF i < 2 THEN w ELSE BulletsLoopShort(BulletStep(w, i), i - 1))

(* for (let i = bullets.length-1; i >= 0; i--) *)
RECURSIVE BulletsLoop(_, _)
BulletsLoop(w, i) ==
  After(w, IF i < 1 THEN w ELSE BulletsLoop(BulletStep(w, i), i - 1))

BulletPhase(w) == BulletsLoop(w, Len(w.bullets))

SpawnedIds(lg) == { lg[n].id : n \in { m \in 1..Len(lg) : lg[m].k = "spawn" } }

RECURSIVE SinceLoop(_, _, _)
SinceLoop(w, spawned, i) ==
  IF i > Len(w.players) THEN w
  ELSE SinceLoop([w EXCEPT !.since[i] = IF w.players[i].id \in spawned THEN 0
                                        ELSE Min(SinceCap, w.since[i] + 1)],
                 spawned, i + 1)

Observe(w) == SinceLoop(w, SpawnedIds(w.log), 1)

(* gameTick (lines 219-371); the snapshot broadcast changes no state *)
gameTick(w) == Observe(BulletPhase(PlayersLoop([w EXCEPT !.log = << >>], 1)))

(* ------------------------------------------------------------------ *)

(* Replaying a prefix of a run                                        *)
(* ------------------------------------------------------------------ *)
(* A script is a sequence of events, each handled by the handler above:    *)
(* [op |-> "c"] a connection, [op |-> "d", id] a disconnect,               *)
(* [op |-> "i", id, data] an input message, [op |-> "t", n] n ticks.       *)
(* the length of part i (from 0) when n steps are cut in parts of q *)
Part(n, q, i) == IF n - i * q <= 0 THEN 0 ELSE IF n - i * q < q THEN n - i * q ELSE q

(* n ticks, cut in eight parts; the tests on w1..w7 have each part         *)
(* evaluated before the next starts, so the evaluation nests only          *)
(* log n deep                                                              *)
RECURSIVE Ticks(_, _)
Ticks(w, n) ==
  IF n = 0 THEN w
  ELSE IF n = 1 THEN gameTick(w)
  ELSE LET q == (n + 7) \div 8
           w1 == Ticks(w, Part(n, q, 0))
           w2 == Ticks(w1, Part(n, q, 1))
           w3 == Ticks(w2, Part(n, q, 2))
           w4 == Ticks(w3, Part(n, q, 3))
           w5 == Ticks(w4, Part(n, q, 4))
           w6 == Ticks(w5, Part(n, q, 5))
           w7 == Ticks(w6, Part(n, q, 6))
       IN  IF /\ w1.nextId > 0
              /\ w2.nextId > 0
              /\ w3.nextId > 0
              /\ w4.nextId > 0
              /\ w5.nextId > 0
              /\ w6.nextId > 0
              /\ w7.nextId > 0
           THEN Ticks(w7, Part(n, q, 7)) ELSE w7

Handle(w, ev) ==
  CASE ev.op = "c" -> OnConnection(w)
    [] ev.op = "d" -> OnDisconnect(w, ev.id)
    [] ev.op = "i" -> OnInput(w, ev.id, ev.data)
    [] ev.op = "t" -> Ticks(w, ev.n)

(* the events script[k..m] handled in order, from world w; cut in four     *)
(* parts as the ticks are                                                  *)
RECURSIVE Replay(_, _, _, _)
Replay(w, script, k, m) ==
  IF k > m THEN w
  ELSE IF k = m THEN Handle(w, script[k])
  ELSE LET n == m - k + 1
           q == (n + 3) \div 4
           k1 == k + Part(n, q, 0)
           k2 == k1 + Part(n, q, 1)
           k3 == k2 + Part(n, q, 2)
           w1 == Replay(w, script, k, k1 - 1)
           w2 == Replay(w1, script, k1, k2 - 1)
           w3 == Replay(w2, script, k2, k3 - 1)
       IN  IF /\ w1.nextId > 0
              /\ w2.nextId > 0
              /\ w3.nextId > 0
           THEN Replay(w3, script, k3, m) ELSE w3

Run(script) == Replay(EmptyWorld, script, 1, Len(script))

(* ------------------------------------------------------------------ *)
(* The state machine                                                  *)
(* ------------------------------------------------------------------ *)
(* fuel counts what a behaviour may still do: lobby events (connect,       *)
(* disconnect), input messages, ticks, and paint calls made on their own.  *)
(* Bounds of Spec, which starts from the empty server:                     *)
MaxLobby == 5
MaxInputs == 1
MaxTicks == 2

(* the input messages a client sends: partial intent records *)
InputMsgs ==
  { [right |-> TRUE],
    [up |-> TRUE, left |-> TRUE, right |-> FALSE],
    [down |-> TRUE, up |-> FALSE],
    [up |-> FALSE, down |-> FALSE, left |-> FALSE, right |-> FALSE],
    [lmb |-> TRUE],
    [lmb |-> FALSE, angle |-> 1],
    [rmb |-> TRUE, angle |-> 3],
    [angle |-> 2] }

World ==
  [players |-> players, bullets |-> bullets, paint |-> paint, log |-> log,
   since |-> since, nextId |-> nextId]

Becomes(w) ==
  /\ players' = w.players
  /\ bullets' = w.bullets
  /\ paint' = w.paint
  /\ log' = w.log
  /\ since' = w.since
  /\ nextId' = w.nextId

Is(w) ==
  /\ players = w.players
  /\ bullets = w.bullets
  /\ paint = w.paint
  /\ log = w.log
  /\ since = w.since
  /\ nextId = w.nextId

Ids(ps) == { ps[i].id : i \in 1..Len(ps) }

Init ==
  /\ Is(EmptyWorld)
  /\ fuel = [lobby |-> MaxLobby, inputs |-> MaxInputs, ticks |-> MaxTicks, stamps |-> 0]

Connect ==
  /\ fuel.lobby > 0
  /\ Becomes(OnConnection(World))
  /\ fuel' = [fuel EXCEPT !.lobby = fuel.lobby - 1]

Disconnect ==
  /\ fuel.lobby > 0
  /\ \E id \in Ids(players) : Becomes(OnDisconnect(World, id))
  /\ fuel' = [fuel EXCEPT !.lobby = fuel.lobby - 1]

(* an input may still arrive for a socket that has just disconnected *)
Input ==
  /\ fuel.inputs > 0
  /\ \E id \in 1..(nextId - 1), data \in InputMsgs : Becomes(OnInput(World, id, data))
  /\ fuel' = [fuel EXCEPT !.inputs = fuel.inputs - 1]

Tick ==
  /\ fuel.ticks > 0
  /\ Becomes(gameTick(World))
  /\ fuel' = [fuel EXCEPT !.ticks = fuel.ticks - 1]

Next == Connect \/ Disconnect \/ Input \/ Tick

Spec == Init /\ [][Next]_vars

(* ------------------------------------------------------------------ *)
(* Mid-game: behaviours that start in the middle of a duel            *)
(* ------------------------------------------------------------------ *)
(* Each start is the world a script leads to from the empty server, so it  *)
(* is reachable by construction.  Bounds of SpecDuel:                      *)
DuelLobby == 1
DuelInputs == 2
DuelTicks == 3
LongTicks == 6

Stop == [up |-> FALSE, down |-> FALSE, left |-> FALSE, right |-> FALSE]
EvC == [op |-> "c"]
EvD(id) == [op |-> "d", id |-> id]
EvT(n) == [op |-> "t", n |-> n]
EvI(id, data) == [op |-> "i", id |-> id, data |-> data]

(* red (id 1) walks down and right, blue (id 2) down and left until the   *)
(* wall WALLS[3] stops it: red ends below that wall, blue at its right end *)
Approach ==
  << EvC, EvC, EvI(1, [down |-> TRUE]), EvI(2, [down |-> TRUE]), EvT(10),
     EvI(1, [down |-> FALSE, right |-> TRUE]), EvT(58),
     EvI(2, [down |-> FALSE, left |-> TRUE]), EvT(62),
     EvI(1, Stop), EvI(2, Stop) >>

(* red fires up: its bullet meets the wall beside blue in the next tick *)
RedAtWall == Approach \o << EvI(1, [lmb |-> TRUE, angle |-> 3]), EvT(4) >>

(* blue fires down: its bullet meets red in the next tick *)
BlueAtRed == Approach \o << EvI(2, [lmb |-> TRUE, angle |-> 1]), EvT(4) >>

(* red has fired once to the left: the bullet times out two ticks on *)
RedTimeout ==
  Approach \o << EvI(1, [lmb |-> TRUE, angle |-> 2]), EvT(1),
                 EvI(1, [lmb |-> FALSE]), EvT(33) >>

(* both have fired for seven ticks: paint on the ground, bullets in flight *)
BothFiring ==
  Approach \o << EvI(1, [lmb |-> TRUE, angle |-> 3]),
                 EvI(2, [lmb |-> TRUE, angle |-> 1]), EvT(7) >>

(* blue has hit red eighteen times: the next hit takes the last hp *)
RedLow == Approach \o << EvI(2, [lmb |-> TRUE, angle |-> 1]), EvT(94) >>

(* red is worn down by the paint it stands on and dies in the tick in     *)
(* which blue's last bullet reaches it                                     *)
RedDying ==
  Approach \o << EvI(2, [lmb |-> TRUE, angle |-> 1]), EvT(90),
                 EvI(2, [lmb |-> FALSE]), EvT(77),
                 EvI(2, [lmb |-> TRUE]), EvT(1),
                 EvI(2, [lmb |-> FALSE]), EvT(3) >>

(* red fires up at the wall and erases the paint its bullets leave there, *)
(* until its erase-resource is nearly spent                               *)
RedDrained ==
  Approach \o << EvI(1, [lmb |-> TRUE, rmb |-> TRUE, angle |-> 3]), EvT(275) >>

(* a spectator (id 3) stands on the red spawn, ahead of the red player     *)
(* (id 4) in the Map; blue (id 2) has walked round and fires at them       *)
Crowd ==
  << EvC, EvC, EvC, EvD(1), EvC, EvI(2, [down |-> TRUE]), EvT(86),
     EvI(2, [down |-> FALSE, left |-> TRUE]), EvT(131),
     EvI(2, [left |-> FALSE, angle |-> 3, lmb |-> TRUE]), EvT(1) >>

(* the same lobby, but the red player (id 4) has first walked up from the *)
(* red spawn: only the spectator is left in the line of blue's fire       *)
PastSpectator ==
  << EvC, EvC, EvC, EvD(1), EvC, EvI(4, [up |-> TRUE]), EvI(2, [down |-> TRUE]),
     EvT(10), EvI(4, [up |-> FALSE]), EvT(76),
     EvI(2, [down |-> FALSE, left |-> TRUE]), EvT(131),
     EvI(2, [left |-> FALSE, angle |-> 3, lmb |-> TRUE]), EvT(1) >>

Fuel(l, i, t) == [lobby |-> l, inputs |-> i, ticks |-> t, stamps |-> 0]

DuelStarts ==
  { [script |-> Approach, fuel |-> Fuel(DuelLobby, DuelInputs, DuelTicks)],
    [script |-> Approach, fuel |-> Fuel(0, DuelInputs - 1, LongTicks)],
    [script |-> RedAtWall, fuel |-> Fuel(0, DuelInputs, DuelTicks)],
    [script |-> BlueAtRed, fuel |-> Fuel(DuelLobby, DuelInputs - 1, DuelTicks)],
    [script |-> RedTimeout, fuel |-> Fuel(0, DuelInputs - 1, DuelTicks)],
    [script |-> BothFiring, fuel |-> Fuel(0, DuelInputs - 1, LongTicks)],
    [script |-> RedLow, fuel |-> Fuel(0, DuelInputs - 1, DuelTicks)],
    [script |-> RedDying, fuel |-> Fuel(0, DuelInputs - 1, DuelTicks)],
    [script |-> RedDrained, fuel |-> Fuel(0, DuelInputs - 1, LongTicks)],
    [script |-> PastSpectator, fuel |-> Fuel(0, DuelInputs - 1, DuelTicks)],
    [script |-> Crowd, fuel |-> Fuel(0, DuelInputs - 1, DuelTicks)] }

InitDuel == \E s \in DuelStarts : Is(Run(s.script)) /\ fuel = s.fuel

SpecDuel == InitDuel /\ [][Next]_vars

(* ------------------------------------------------------------------ *)
(* The two paint functions on their own                               *)
(* ------------------------------------------------------------------ *)
(* Bound of SpecPaint: the number of calls in a behaviour *)
PaintOps == 2

(* centres: inside the arena near a corner, across a tile border, and      *)
(* outside the arena (a bullet crossing the border, an aim point beyond)   *)
Centres ==
  { << Num(25), Num(25) >>, << Num(50), Num(30) >>, << Num(-3), Num(12) >>,
    << Sub(MAP_W, Num(2)), Sub(MAP_H, Num(5)) >>,
    << Add(MAP_W, Num(50)), Add(MAP_H, Num(30)) >> }

PlaceRadii == { R_HIT, R_WALL }
(* budgets: the caller passes budgetTiles only when it is above 0 (lines   *)
(* 305-307), and p.erase <= MAX_ERASE keeps it at 100 or less              *)
TileBudgets == { 1, 2, 100 }

InitPaint ==
  /\ Is(EmptyWorld)
  /\ fuel = [lobby |-> 0, inputs |-> 0, ticks |-> 0, stamps |-> PaintOps]

Place ==
  /\ fuel.stamps > 0
  /\ \E c \in Centres, r \in PlaceRadii, tid \in {1, 2} :
        /\ paint' = placePaintCircle(paint, c[1], c[2], r, tid)
        /\ log' = << [k |-> "place", x |-> c[1], y |-> c[2], r |-> r, tid |-> tid,
                      before |-> paint] >>
  /\ fuel' = [fuel EXCEPT !.stamps = fuel.stamps - 1]
  /\ UNCHANGED <<players, bullets, since, nextId>>

Erase ==
  /\ fuel.stamps > 0
  /\ \E c \in Centres, maxTiles \in TileBudgets :
        /\ paint' = erasePaintCircle(paint, c[1], c[2], ERASE_RADIUS, maxTiles).grid
        /\ log' = << [k |-> "erasecall", x |-> c[1], y |-> c[2], r |-> ERASE_RADIUS,
                      maxTiles |-> maxTiles, before |-> paint,
                      ret |-> erasePaintCircle(paint, c[1], c[2], ERASE_RADIUS,
                                               maxTiles).erased] >>
  /\ fuel' = [fuel EXCEPT !.stamps = fuel.stamps - 1]
  /\ UNCHANGED <<players, bullets, since, nextId>>

NextPaint == Place \/ Erase

SpecPaint == InitPaint /\ [][NextPaint]_vars

(* ------------------------------------------------------------------ *)
(* Reading the log                                                    *)
(* ------------------------------------------------------------------ *)
(* A bullet in flight is known by its team and its life: one player per   *)
(* team fires at most once a tick, and every life falls by DT a tick.     *)
BulletKinds == {"life", "step", "stamp", "hit", "remove"}

(* the events of the bullet of team t whose life this tick is l, in order *)
EventsOf(lg, t, l) ==
  SelectSeq(lg, LAMBDA e : e.k \in BulletKinds /\ e.team = t /\ e.life = l)

Count(lg, kind) == Cardinality({ n \in 1..Len(lg) : lg[n].k = kind })

SpawnsBy(lg, id) ==
  Cardinality({ n \in 1..Len(lg) : lg[n].k = "spawn" /\ lg[n].id = id })

HitsOn(lg, id) ==
  Cardinality({ n \in 1..Len(lg) : lg[n].k = "hit" /\ lg[n].id = id })

InFlight(bs, t, l) == \E j \in 1..Len(bs) : bs[j].team = t /\ bs[j].life = l

IsTick == fuel'.ticks = fuel.ticks - 1

(* hp h after k hits, each taking HIT_DAMAGE and stopping at 0 *)
RECURSIVE AfterHits(_, _)
AfterHits(h, k) ==
  IF k = 0 THEN h ELSE AfterHits(MathMax(Zero, Sub(h, HIT_DAMAGE)), k - 1)

(* the hp of player p is what the player phase left (hd of its upd event, *)
(* MAX_HP after a respawn) less HIT_DAMAGE for each hit the log names     *)
HpAccounted(lg, p) ==
  LET upd == { n \in 1..Len(lg) : lg[n].k = "upd" /\ lg[n].id = p.id }
      resp == { n \in 1..Len(lg) : lg[n].k = "respawn" /\ lg[n].id = p.id }
  IN  IF upd # {}
      THEN \A n \in upd : p.hp = AfterHits(lg[n].hd, HitsOn(lg, p.id))
      ELSE IF resp # {}
      THEN p.hp = AfterHits(MAX_HP, HitsOn(lg, p.id))
      ELSE HitsOn(lg, p.id) = 0 /\ (p.role = "spectator" => p.hp = MAX_HP)

(* ------------------------------------------------------------------ *)
(* C1                                                                  *)
(* ------------------------------------------------------------------ *)
RedHeld(ps) == \E i \in 1..Len(ps) : ps[i].role = "player" /\ ps[i].team = "red"
BlueHeld(ps) == \E i \in 1..Len(ps) : ps[i].role = "player" /\ ps[i].team = "blue"

C1_Step ==
  nextId' = nextId + 1 =>
    /\ Len(players') = Len(players) + 1
    /\ SubSeq(players', 1, Len(players)) = players
    /\ players'[Len(players')].id = nextId
    /\ ~RedHeld(players) =>
          /\ players'[Len(players')].role = "player"
          /\ players'[Len(players')].team = "red"
    /\ RedHeld(players) /\ ~BlueHeld(players) =>
          /\ players'[Len(players')].role = "player"
          /\ players'[Len(players')].team = "blue"
    /\ RedHeld(players) /\ BlueHeld(players) =>
          /\ players'[Len(players')].role = "spectator"
          /\ players'[Len(players')].team = "none"

(* C1: from the empty server, through any connects and disconnects, every *)
(* new connection is appended as: the red player when no red player is    *)
(* connected (the first connection, and the next one after red left);     *)
(* the blue player when red is held and blue is not (the second           *)
(* connection); a spectator without a team when both slots are held.      *)
C1_TeamAssignment == [][C1_Step]_vars

(* blue and a spectator stayed, red left, and the newcomer (id 4) is red *)
C1_Witness ==
  /\ Len(players) = 3
  /\ players[1].role = "player" /\ players[1].team = "blue"
  /\ players[2].role = "spectator" /\ players[2].team = "none"
  /\ players[3].role = "player" /\ players[3].team = "red" /\ players[3].id = 4

(* ------------------------------------------------------------------ *)
(* C2                                                                  *)
(* ------------------------------------------------------------------ *)
HpOk(v) == Le(Zero, v) /\ Le(v, MAX_HP)
EraseOk(v) == Le(Zero, v) /\ Le(v, MAX_ERASE)

(* C2: in every reachable state every player's hp is in [0, MAX_HP] and   *)
(* erase-resource in [0, MAX_ERASE], and so is every value they took      *)
(* inside the last gameTick: after regeneration (hr, er), after paint     *)
(* damage (hd), after the erase cost (e) and after a bullet hit (h1).     *)
C2_Bounded ==
  /\ \A i \in 1..Len(players) : HpOk(players[i].hp) /\ EraseOk(players[i].erase)
  /\ \A n \in 1..Len(log) :
        /\ log[n].k = "upd" => HpOk(log[n].hr) /\ HpOk(log[n].hd) /\ EraseOk(log[n].er)
        /\ log[n].k = "erase" => EraseOk(log[n].e)
        /\ log[n].k = "hit" => HpOk(log[n].h1)

(* in one tick: a hit that takes more than the hp left (clamped at 0),    *)
(* and a regeneration at the cap (clamped at MAX_HP)                      *)
C2_Witness ==
  /\ \E n \in 1..Len(log) :
        log[n].k = "hit" /\ Lt(log[n].h0, HIT_DAMAGE) /\ Lt(Zero, log[n].h0)
                         /\ log[n].h1 = Zero
  /\ \E n \in 1..Len(log) :
        log[n].k = "upd" /\ log[n].h0 = MAX_HP /\ log[n].hr = MAX_HP
                         /\ log[n].e0 = MAX_ERASE /\ log[n].er = MAX_ERASE

(* ------------------------------------------------------------------ *)
(* C3                                                                  *)
(* ------------------------------------------------------------------ *)
(* C3: after the movement step of gameTick the position of an alive       *)
(* player never collides with a wall or the arena border, whatever the    *)
(* intent flags; and in every reachable state no alive player of role     *)
(* player does (spawn and respawn positions included).                    *)
C3_NoOverlap ==
  /\ \A i \in 1..Len(players) :
        (players[i].role = "player" /\ players[i].alive) =>
           ~collidesWithWalls(players[i].x, players[i].y, PLAYER_RADIUS)
  /\ \A n \in 1..Len(log) :
        log[n].k = "upd" => ~collidesWithWalls(log[n].x, log[n].y, PLAYER_RADIUS)

(* a player pushed up and left into a wall: the full step to the left     *)
(* would collide, the search put it short of it, and it slid upwards      *)
C3_Witness ==
  \E n \in 1..Len(log) :
     /\ log[n].k = "upd"
     /\ log[n].mx = -1
     /\ log[n].my = -1
     /\ Lt(log[n].y, log[n].y0)
     /\ collidesWithWalls(Add(log[n].x0, MoveDelta(log[n].mx, log[n].my # 0)),
                          log[n].y0, PLAYER_RADIUS)
     /\ Lt(Add(log[n].x0, MoveDelta(log[n].mx, log[n].my # 0)), log[n].x)
     /\ Le(log[n].x, log[n].x0)

(* ------------------------------------------------------------------ *)
(* C4                                                                  *)
(* ------------------------------------------------------------------ *)
Changed(before, after) ==
  { c \in Cols \X Rows : Cell(before, c[1], c[2]) # Cell(after, c[1], c[2]) }

OwnedInRange(grid, x, y, r) ==
  { c \in Cols \X Rows : Cell(grid, c[1], c[2]) # 0 /\ TileInCircle(c[1], c[2], x, y, r) }

(* C4: a call erasePaintCircle(x, y, r, maxTiles) changes at most         *)
(* maxTiles cells, only cells that were owned (to 0), returns the number  *)
(* of cells it changed, and returns 0 with the grid unchanged when no     *)
(* owned cell is in range.                                                *)
C4_EraseWithinBudget ==
  \A n \in 1..Len(log) :
     log[n].k = "erasecall" =>
        /\ Cardinality(Changed(log[n].before, paint)) <= log[n].maxTiles
        /\ \A c \in Changed(log[n].before, paint) :
              Cell(log[n].before, c[1], c[2]) # 0 /\ Cell(paint, c[1], c[2]) = 0
        /\ log[n].ret = Cardinality(Changed(log[n].before, paint))
        /\ OwnedInRange(log[n].before, log[n].x, log[n].y, log[n].r) = {} =>
              log[n].ret = 0 /\ paint = log[n].before

(* the logged call had more owned cells in range than its budget and      *)
(* cleared as many as the budget                                          *)
C4_Witness ==
  \E n \in 1..Len(log) :
     /\ log[n].k = "erasecall"
     /\ Cardinality(OwnedInRange(log[n].before, log[n].x, log[n].y, log[n].r))
           > log[n].maxTiles
     /\ log[n].ret = log[n].maxTiles
     /\ Cardinality(Changed(log[n].before, paint)) = log[n].maxTiles

(* ------------------------------------------------------------------ *)
(* C5                                                                  *)
(* ------------------------------------------------------------------ *)
OtherTeamId(tid) == 3 - tid

(* the grid after the logged call e is `now`, `again` after the same call *)
(* once more, `over` after the call with the other team id                *)
C5_Cells(e, now, again, over) ==
  /\ again = now
  /\ \A c \in Cols \X Rows :
        IF TileInCircle(c[1], c[2], e.x, e.y, e.r)
        THEN Cell(over, c[1], c[2]) # e.tid
        ELSE /\ Cell(now, c[1], c[2]) = Cell(e.before, c[1], c[2])
             /\ Cell(over, c[1], c[2]) = Cell(now, c[1], c[2])

(* C5: placePaintCircle is idempotent (the same call again leaves the     *)
(* grid as it is) and overwriting (the call with the other team id and    *)
(* the same centre and radius leaves no cell in range with the first      *)
(* team), and neither call changes a cell whose centre is farther than r. *)
C5_PlaceIdempotent ==
  \A n \in 1..Len(log) :
     log[n].k = "place" =>
        C5_Cells(log[n], paint,
                 placePaintCircle(paint, log[n].x, log[n].y, log[n].r, log[n].tid),
                 placePaintCircle(paint, log[n].x, log[n].y, log[n].r,
                                  OtherTeamId(log[n].tid)))

(* the logged call painted over a cell of the other team *)
C5_Witness ==
  \E n \in 1..Len(log) :
     /\ log[n].k = "place"
     /\ \E c \in Cols \X Rows :
           /\ TileInCircle(c[1], c[2], log[n].x, log[n].y, log[n].r)
           /\ Cell(log[n].before, c[1], c[2]) = OtherTeamId(log[n].tid)
           /\ Cell(paint, c[1], c[2]) = log[n].tid

(* ------------------------------------------------------------------ *)
(* C6                                                                  *)
(* ------------------------------------------------------------------ *)
BulletKey(b) == [team |-> b.team, life |-> b.life, x |-> b.x, y |-> b.y]

RECURSIVE KeysOf(_, _)
KeysOf(bs, i) ==
  IF i > Len(bs) THEN << >> ELSE << BulletKey(bs[i]) >> \o KeysOf(bs, i + 1)

RECURSIVE SpawnKeys(_, _)
SpawnKeys(lg, n) ==
  IF n > Len(lg) THEN << >>
  ELSE IF lg[n].k = "spawn"
    THEN << [team |-> lg[n].team, life |-> BULLET_LIFE, x |-> lg[n].x, y |-> lg[n].y] >>
         \o SpawnKeys(lg, n + 1)
  ELSE SpawnKeys(lg, n + 1)

(* the list the bullet phase starts with: the bullets of the state before, *)
(* then those the player phase spawned                                     *)
PreBullets(bs, lg) == KeysOf(bs, 1) \o SpawnKeys(lg, 1)

(* team and life of those of pre that the tick did not remove, in order *)
RECURSIVE Survivors(_, _, _)
Survivors(pre, lg, i) ==
  IF i > Len(pre) THEN << >>
  ELSE IF Count(EventsOf(lg, pre[i].team, Sub(pre[i].life, DT)), "remove") > 0
    THEN Survivors(pre, lg, i + 1)
  ELSE << [team |-> pre[i].team, life |-> Sub(pre[i].life, DT)] >>
       \o Survivors(pre, lg, i + 1)

RECURSIVE TeamLife(_, _)
TeamLife(bs, i) ==
  IF i > Len(bs) THEN << >>
  ELSE << [team |-> bs[i].team, life |-> bs[i].life] >> \o TeamLife(bs, i + 1)

C6_Bullet(b, ev) ==
  /\ Len(ev) >= 1
  /\ ev[1] = [k |-> "life", team |-> b.team, life |-> Sub(b.life, DT)]
  /\ Count(ev, "life") = 1
  /\ IF Le(Sub(b.life, DT), Zero)
     THEN ev = << [k |-> "life", team |-> b.team, life |-> Sub(b.life, DT)],
                  [k |-> "stamp", team |-> b.team, life |-> Sub(b.life, DT),
                   r |-> 18, tid |-> teamId(b.team), x |-> b.x, y |-> b.y],
                  [k |-> "remove", team |-> b.team, life |-> Sub(b.life, DT),
                   why |-> "timeout"] >>
     ELSE \A m \in 1..Len(ev) : ev[m].k = "remove" => ev[m].why # "timeout"

C6_Step ==
  IsTick =>
    /\ Count(log', "life") = Len(PreBullets(bullets, log'))
    /\ \A i \in 1..Len(PreBullets(bullets, log')) :
          C6_Bullet(PreBullets(bullets, log')[i],
                    EventsOf(log', PreBullets(bullets, log')[i].team,
                             Sub(PreBullets(bullets, log')[i].life, DT)))
    /\ TeamLife(bullets', 1) = Survivors(PreBullets(bullets, log'), log', 1)

(* C6: in every tick every bullet of the list (the new ones included) has *)
(* its life decreased by DT exactly once, whatever is spliced out around  *)
(* it; a bullet whose life becomes <= 0 is removed in that tick after     *)
(* exactly one placePaintCircle of radius 18 with its team at its         *)
(* position, without being advanced or collision-tested; the bullets      *)
(* left are the others that were not removed, in order.                   *)
C6_LifeAndTimeout == [][C6_Step]_vars

(* a bullet timed out in a tick in which another one stayed in flight *)
C6_Witness ==
  /\ \E n \in 1..Len(log) : log[n].k = "remove" /\ log[n].why = "timeout"
  /\ Len(bullets) >= 1

(* ------------------------------------------------------------------ *)
(* C7                                                                  *)
(* ------------------------------------------------------------------ *)
C7_At(lg, n, ev) ==
  /\ n + 2 <= Len(lg)
  /\ lg[n + 1] = [k |-> "stamp", team |-> lg[n].team, life |-> lg[n].life,
                  r |-> 20, tid |-> teamId(lg[n].team),
                  x |-> lg[n].x, y |-> lg[n].y]
  /\ lg[n + 2] = [k |-> "remove", team |-> lg[n].team, life |-> lg[n].life,
                  why |-> "wall"]
  /\ Count(ev, "stamp") = 1
  /\ Count(ev, "remove") = 1
  /\ Count(ev, "hit") = 0
  /\ \A m \in 1..Len(ev) : ev[m].k = "step" => ev[m].s <= lg[n].s
  /\ ev[Len(ev)].k = "remove"

(* C7: a sub-step that ends in a wall or outside the arena is followed by *)
(* exactly one placePaintCircle of radius 20 there with the bullet's team *)
(* and by the bullet's removal; the bullet hits no player, not even one   *)
(* within hit distance (whose hp is accounted for without it), and runs   *)
(* no further sub-step.                                                   *)
C7_WallHit ==
  \A n \in 1..Len(log) :
     (log[n].k = "step" /\ collidesWithWalls(log[n].x, log[n].y, BULLET_RADIUS)) =>
        /\ C7_At(log, n, EventsOf(log, log[n].team, log[n].life))
        /\ ~InFlight(bullets, log[n].team, log[n].life)
        /\ \A i \in 1..Len(players) :
              InHitRange(players[i], log[n].x, log[n].y) => HpAccounted(log, players[i])

(* the bullet met the wall within hit distance of an alive enemy player *)
C7_Witness ==
  \E n \in 1..Len(log) :
     /\ log[n].k = "step"
     /\ collidesWithWalls(log[n].x, log[n].y, BULLET_RADIUS)
     /\ \E i \in 1..Len(players) :
           /\ players[i].role = "player" /\ players[i].alive
           /\ players[i].team # log[n].team
           /\ InHitRange(players[i], log[n].x, log[n].y)
           /\ \E m \in 1..Len(log) : log[m].k = "upd" /\ log[m].id = players[i].id

(* ------------------------------------------------------------------ *)
(* C8                                                                  *)
(* ------------------------------------------------------------------ *)
C8_At(lg, n, ev) ==
  /\ n > 1
  /\ lg[n - 1].k = "step" /\ lg[n - 1].team = lg[n].team /\ lg[n - 1].life = lg[n].life
  /\ n + 2 <= Len(lg)
  /\ lg[n + 1] = [k |-> "stamp", team |-> lg[n].team, life |-> lg[n].life,
                  r |-> 16, tid |-> teamId(lg[n].team),
                  x |-> lg[n - 1].x, y |-> lg[n - 1].y]
  /\ lg[n + 2] = [k |-> "remove", team |-> lg[n].team, life |-> lg[n].life,
                  why |-> "hit"]
  /\ Count(ev, "hit") = 1
  /\ Count(ev, "stamp") = 1
  /\ Count(ev, "remove") = 1
  /\ ev[Len(ev)].k = "remove"
  /\ lg[n].h1 = MathMax(Zero, Sub(lg[n].h0, HIT_DAMAGE))

(* why a bullet was removed: its life ran out, its sub-step ended in a    *)
(* wall, or it hit a player                                               *)
C8_Removal(lg, n) ==
  \/ lg[n].why = "timeout" /\ Le(lg[n].life, Zero)
  \/ /\ lg[n].why = "wall" /\ n > 2 /\ lg[n - 2].k = "step"
     /\ collidesWithWalls(lg[n - 2].x, lg[n - 2].y, BULLET_RADIUS)
  \/ lg[n].why = "hit" /\ n > 2 /\ lg[n - 2].k = "hit"

(* C8: a hit lowers the hp of one player by HIT_DAMAGE (clamped at 0),    *)
(* once, with exactly one placePaintCircle of radius 16 at the bullet's   *)
(* position and the bullet's removal, so a bullet hits at most once in    *)
(* its life; the player hit is alive, of role player and of another team; *)
(* no other hp changes in the bullet phase (not a spectator's, a dead or  *)
(* a same-team player's), and no bullet is removed but by timeout, wall   *)
(* or such a hit.                                                         *)
C8_Hit ==
  /\ \A n \in 1..Len(log) :
        log[n].k = "hit" =>
           /\ C8_At(log, n, EventsOf(log, log[n].team, log[n].life))
           /\ ~InFlight(bullets, log[n].team, log[n].life)
           /\ \A i \in 1..Len(players) :
                 players[i].id = log[n].id =>
                    /\ players[i].role = "player"
                    /\ players[i].alive
                    /\ players[i].team # log[n].team
  /\ \A n \in 1..Len(log) : log[n].k = "remove" => C8_Removal(log, n)
  /\ \A i \in 1..Len(players) : HpAccounted(log, players[i])

(* a bullet hit the red player although a spectator, earlier in the Map,  *)
(* stood within hit distance of it                                        *)
C8_Witness ==
  \E n \in 2..Len(log) :
     /\ log[n].k = "hit"
     /\ \E i, j \in 1..Len(players) :
           /\ i < j
           /\ players[i].role = "spectator"
           /\ InHitRange(players[i], log[n - 1].x, log[n - 1].y)
           /\ players[j].id = log[n].id
           /\ players[j].hp = Sub(MAX_HP, HIT_DAMAGE)

(* ------------------------------------------------------------------ *)
(* C9                                                                  *)
(* ------------------------------------------------------------------ *)
C9_Player(p, sinceLast, lg) ==
  /\ SpawnsBy(lg, p.id) <= 1
  /\ SpawnsBy(lg, p.id) = 1 => Le(FIRE_COOLDOWN, Mul(Num(sinceLast + 1), DT))
  /\ (p.role = "player" /\ p.alive /\ p.inputs.lmb
      /\ Le(Sub(p.fireCooldown, DT), Zero)) =>
        SpawnsBy(lg, p.id) = 1

C9_Step ==
  IsTick =>
    /\ \A i \in 1..Len(players) : C9_Player(players[i], since[i], log')
    /\ Len(bullets') = Len(bullets) + Count(log', "spawn") - Count(log', "remove")

(* C9: a player spawns at most one bullet in a tick; a spawn comes at     *)
(* least FIRE_COOLDOWN (five ticks of DT) after the same player's         *)
(* previous one; and an alive player whose fire flag is set in a tick in  *)
(* which its cooldown has run down to 0 does spawn one in that tick.      *)
C9_FireCooldown == [][C9_Step]_vars

(* a second bullet as soon after the first as the cooldown lets it: five  *)
(* ticks                                                                  *)
C9_Witness ==
  \E n \in 1..Len(log) :
     /\ log[n].k = "spawn"
     /\ Le(FIRE_COOLDOWN, Mul(Num(log[n].gap), DT))
     /\ Lt(Mul(Num(log[n].gap - 1), DT), FIRE_COOLDOWN)

(* ------------------------------------------------------------------ *)
(* C10                                                                 *)
(* ------------------------------------------------------------------ *)
OnEnemyPaint(e) ==
  \/ e.team = "red" /\ e.tile = 2
  \/ e.team = "blue" /\ e.tile = 1

(* the hp of the player of upd event e at the end of the tick is v, when  *)
(* no bullet hit it                                                        *)
EndsWith(e, v) ==
  /\ e.hd = v
  /\ \A i \in 1..Len(players) :
        (players[i].id = e.id /\ HitsOn(log, e.id) = 0) => players[i].hp = v

(* C10 as stated: on a tile of the opposing team, and for every hp h at   *)
(* the start of the tick, the hp after the tick (no bullet hit) is        *)
(* max(0, h + regen - damage); elsewhere there is no paint damage.        *)
C10_NetAsStated ==
  \A n \in 1..Len(log) :
     log[n].k = "upd" =>
        IF OnEnemyPaint(log[n])
        THEN EndsWith(log[n], MathMax(Zero, Sub(Add(log[n].h0, HpRegenStep),
                                                PaintDamageStep)))
        ELSE EndsWith(log[n], MathMin(MAX_HP, Add(log[n].h0, HpRegenStep)))

(* C10, amended: regeneration is clamped at MAX_HP before the damage is   *)
(* taken, so on a tile of the opposing team the hp after the tick (no     *)
(* bullet hit) is max(0, min(MAX_HP, h + regen) - damage): regen - damage *)
(* net for h <= MAX_HP - regen, and the damage alone at h = MAX_HP;       *)
(* elsewhere there is no paint damage.                                    *)
C10_NetClamped ==
  \A n \in 1..Len(log) :
     log[n].k = "upd" =>
        IF OnEnemyPaint(log[n])
        THEN EndsWith(log[n],
                      MathMax(Zero, Sub(MathMin(MAX_HP, Add(log[n].h0, HpRegenStep)),
                                        PaintDamageStep)))
        ELSE EndsWith(log[n], MathMin(MAX_HP, Add(log[n].h0, HpRegenStep)))

(* a player at full hp on enemy paint loses the whole damage; another one *)
(* below the cap loses damage less regen                                   *)
C10_Witness ==
  /\ \E n \in 1..Len(log) :
        /\ log[n].k = "upd" /\ OnEnemyPaint(log[n])
        /\ log[n].h0 = MAX_HP /\ log[n].hd = Sub(MAX_HP, PaintDamageStep)
  /\ \E n \in 1..Len(log) :
        /\ log[n].k = "upd" /\ OnEnemyPaint(log[n])
        /\ Lt(log[n].h0, MAX_HP) /\ Lt(PaintDamageStep, log[n].h0)
        /\ log[n].hd = Sub(Add(log[n].h0, HpRegenStep), PaintDamageStep)

(* ------------------------------------------------------------------ *)
(* C11                                                                 *)
(* ------------------------------------------------------------------ *)
(* what a tick did for the erase of the player with socket id `id`, whose *)
(* record after the tick is q, as the tick's log lg tells it              *)
C11_Player(id, q, lg) ==
  LET upd == { n \in 1..Len(lg) : lg[n].k = "upd" /\ lg[n].id = id }
      ers == { m \in 1..Len(lg) : lg[m].k = "erase" /\ lg[m].id = id }
  IN  /\ Cardinality(upd) = 1
      /\ \A n \in upd :
            IF Floor(DivBy(lg[n].er, ERASE_COST_PER_TILE)) = 0
            THEN ers = {} /\ q.erase = lg[n].er
            ELSE /\ Cardinality(ers) = 1
                 /\ \A m \in ers :
                       /\ lg[m].x = Add(q.x, Mul(Cos(q.angle), AIM_DIST))
                       /\ lg[m].y = Add(q.y, Mul(Sin(q.angle), AIM_DIST))
                       /\ Changed(lg[m].before, lg[m].after)
                             \subseteq OwnedInRange(lg[m].before, lg[m].x, lg[m].y,
                                                    ERASE_RADIUS)
                       /\ \A c \in Changed(lg[m].before, lg[m].after) :
                             Cell(lg[m].after, c[1], c[2]) = 0
                       /\ Cardinality(Changed(lg[m].before, lg[m].after))
                             = Min(Cardinality(OwnedInRange(lg[m].before, lg[m].x,
                                                            lg[m].y, ERASE_RADIUS)),
                                   Floor(DivBy(lg[n].er, ERASE_COST_PER_TILE)))
                       /\ q.erase =
                             Sub(lg[n].er,
                                 Num(Cardinality(Changed(lg[m].before, lg[m].after))
                                     * ERASE_COST_PER_TILE))

C11_Step ==
  IsTick =>
    \A i \in 1..Len(players) :
       (players[i].role = "player" /\ players[i].alive /\ players[i].inputs.rmb) =>
          C11_Player(players[i].id, players'[i], log')

(* C11: in a tick in which an alive player holds the erase flag, with e   *)
(* its erase-resource after the tick's regeneration and n the number of   *)
(* owned tiles whose centre is within ERASE_RADIUS of its aim point, the  *)
(* tiles cleared for it are min(n, floor(e / ERASE_COST_PER_TILE)) owned  *)
(* tiles in range and its resource ends the tick at e less the cost of    *)
(* those tiles; with floor(e / cost) = 0 nothing is cleared or charged.   *)
C11_EraseCharge == [][C11_Step]_vars

(* both cases in one run: an erase whose budget (one tile) is below the   *)
(* number of owned tiles in range, and the resource spent down to 0       *)
C11_Witness ==
  \E m \in 1..Len(log) :
     /\ log[m].k = "erase"
     /\ log[m].budget = 1
     /\ log[m].removed = 1
     /\ Cardinality(OwnedInRange(log[m].before, log[m].x, log[m].y, ERASE_RADIUS)) > 1
     /\ Lt(log[m].e, Num(ERASE_COST_PER_TILE))

(* ------------------------------------------------------------------ *)
(* C12                                                                 *)
(* ------------------------------------------------------------------ *)
IntentFields == {"up", "down", "left", "right", "lmb", "rmb", "angle"}

IsInput == fuel'.inputs = fuel.inputs - 1

(* player record q is p with the fields of message data written over its *)
(* pending intent when p belongs to socket id, and p itself otherwise     *)
C12_Player(p, q, id, data) ==
  /\ [q EXCEPT !.inputs = p.inputs] = p
  /\ \A f \in IntentFields :
        q.inputs[f] = IF p.id = id /\ f \in DOMAIN data THEN data[f] ELSE p.inputs[f]

C12_Step ==
  IsInput =>
    /\ bullets' = bullets
    /\ paint' = paint
    /\ Len(players') = Len(players)
    /\ \E id \in 1..(nextId - 1), data \in InputMsgs :
          \A i \in 1..Len(players) : C12_Player(players[i], players'[i], id, data)

(* C12: an input message changes only the pending intent of the player    *)
(* of its socket, and there only the fields the message carries (the      *)
(* others keep their values, a later message overwrites an earlier one    *)
(* field by field); positions, angle, hp, erase-resource, alive flag,     *)
(* cooldown, respawn timer, the bullets and the paint grid stay as they   *)
(* were (they change only in gameTick); a message for a socket that is    *)
(* no longer in the player map changes nothing.                           *)
C12_InputFrame == [][C12_Step]_vars

(* two messages and no tick since: red's intent holds right from one and  *)
(* lmb from the other, and red is where it stood with no bullet fired     *)
C12_Witness ==
  /\ fuel = Fuel(DuelLobby, 0, DuelTicks)
  /\ Len(players) = 2
  /\ players[1].inputs.right /\ players[1].inputs.lmb /\ ~players[1].inputs.rmb
  /\ players[1].fireCooldown = Zero
  /\ bullets = << >>

(* ------------------------------------------------------------------ *)
(* C13                                                                 *)
(* ------------------------------------------------------------------ *)
EventsFor(lg, kinds, id) ==
  { n \in 1..Len(lg) : lg[n].k \in kinds /\ lg[n].id = id }

(* a player that was dead when the tick began (record p, q after it) *)
C13_WasDead(p, q, lg) ==
  /\ EventsFor(lg, {"upd", "spawn", "erase", "death"}, p.id) = {}
  /\ q.erase = p.erase
  /\ q.fireCooldown = p.fireCooldown
  /\ IF Le(Sub(p.respawnTimer, DT), Zero)
     THEN /\ Cardinality(EventsFor(lg, {"respawn"}, p.id)) = 1
          /\ q.x = spawnPosFor(p.team).x
          /\ q.y = spawnPosFor(p.team).y
     ELSE /\ EventsFor(lg, {"respawn", "hit"}, p.id) = {}
          /\ q.x = p.x /\ q.y = p.y /\ q.hp = p.hp /\ ~q.alive

(* a player that died in this tick is dead through its bullet phase *)
C13_Died(p, q, lg) ==
  EventsFor(lg, {"death"}, p.id) # {} =>
     /\ ~q.alive
     /\ EventsFor(lg, {"hit"}, p.id) = {}
     /\ \A n \in EventsFor(lg, {"upd"}, p.id) :
           q.x = lg[n].x /\ q.y = lg[n].y /\ q.hp = lg[n].hd

C13_Step ==
  IsTick =>
    /\ Len(players') = Len(players)
    /\ \A i \in 1..Len(players) :
          players[i].role = "player" =>
             /\ ~players[i].alive => C13_WasDead(players[i], players'[i], log')
             /\ C13_Died(players[i], players'[i], log')

(* C13: while a player is dead, whatever its intent flags, it does not    *)
(* move (its position changes only by the respawn reset to its team's     *)
(* spawn point), spawns no bullet, clears no tile and is not charged      *)
(* erase-resource, takes no paint damage and no bullet damage, and no     *)
(* bullet is removed or splatted for overlapping it.                      *)
C13_DeadExcluded == [][C13_Step]_vars

(* a player died in the tick and an enemy bullet then stepped to within   *)
(* hit distance of it, clear of walls, and flew on                        *)
C13_Witness ==
  \E i \in 1..Len(players), n \in 1..Len(log), m \in 1..Len(log) :
     /\ ~players[i].alive
     /\ log[n].k = "death" /\ log[n].id = players[i].id
     /\ m > n
     /\ log[m].k = "step" /\ log[m].team # players[i].team
     /\ InHitRange(players[i], log[m].x, log[m].y)
     /\ ~collidesWithWalls(log[m].x, log[m].y, BULLET_RADIUS)
     /\ Count(log, "hit") = 0

(* ------------------------------------------------------------------ *)
(* C14                                                                 *)
(* ------------------------------------------------------------------ *)
C14_Step ==
  \A i \in 1..Len(players), j \in 1..Len(players') :
     players'[j].id = players[i].id =>
        /\ players'[j].role = players[i].role
        /\ players'[j].team = players[i].team

(* C14: through any connects, disconnects, inputs and ticks a connection  *)
(* keeps the role and team it was given when it connected: an incumbent   *)
(* keeps its slot, and a spectator stays a spectator when a disconnect    *)
(* frees a slot (the slot goes to a connection made afterwards).          *)
C14_NoRenegotiation == [][C14_Step]_vars

(* red (id 1) has left, a tick has run, and the spectator (id 3) that was *)
(* connected all along is still a spectator while the red slot is free    *)
C14_Witness ==
  /\ Len(players) = 2
  /\ players[1].id = 2 /\ players[1].role = "player" /\ players[1].team = "blue"
  /\ players[2].id = 3 /\ players[2].role = "spectator" /\ players[2].team = "none"
  /\ nextId = 4
  /\ fuel.ticks < MaxTicks

(* ------------------------------------------------------------------ *)
(* C15                                                                 *)
(* ------------------------------------------------------------------ *)
(* the player of record p, alive with no hp left when the tick begins,   *)
(* is dead (record q) after it, by the death check of this tick           *)
C15_Player(p, q, lg) ==
  (p.role = "player" /\ p.alive /\ Le(p.hp, Zero)) =>
     /\ EventsFor(lg, {"death"}, p.id) # {}
     /\ ~q.alive

C15_Step ==
  IsTick =>
    \A i \in 1..Len(players) : C15_Player(players[i], players'[i], log')

(* C15: a player whose hp a bullet hit has brought to 0 is set dead by    *)
(* the death check of the next tick's player update (and then respawns    *)
(* with full hp); no player stays alive with its hp exhausted by hits.    *)
C15_DeathAfterHit == [][C15_Step]_vars

(* ------------------------------------------------------------------ *)
(* C16                                                                 *)
(* ------------------------------------------------------------------ *)
(* record p of a dead player before the tick, q after it *)
C16_Player(p, q, lg) ==
  /\ q.respawnTimer = Sub(p.respawnTimer, DT)
  /\ q.erase = p.erase
  /\ q.fireCooldown = p.fireCooldown
  /\ q.angle = p.angle
  /\ EventsFor(lg, {"upd", "spawn", "erase"}, p.id) = {}
  /\ IF Le(Sub(p.respawnTimer, DT), Zero)
     THEN /\ q.alive
          /\ q.x = spawnPosFor(p.team).x /\ q.y = spawnPosFor(p.team).y
          /\ q.vx = Zero /\ q.vy = Zero
          /\ q.hp = AfterHits(MAX_HP, HitsOn(lg, p.id))
     ELSE /\ ~q.alive
          /\ q.x = p.x /\ q.y = p.y /\ q.hp = p.hp

C16_Step ==
  IsTick =>
    \A i \in 1..Len(players) :
       (players[i].role = "player" /\ ~players[i].alive) =>
          C16_Player(players[i], players'[i], log')

(* C16: a player dead at the start of a tick has its respawn timer        *)
(* lowered by DT; when that makes it <= 0 (with RESPAWN_TIME = 0, in the  *)
(* tick after its death) it is put at its team's spawn point with zero    *)
(* velocity, hp = MAX_HP and alive = true, and in that tick it does not   *)
(* move, regenerate, take paint damage, fire or erase; the respawn leaves *)
(* its erase-resource and fire cooldown as they were.                     *)
C16_Respawn == [][C16_Step]_vars

(* a player fired in the tick it died and has respawned in the next: it  *)
(* is at its spawn point with full hp, still holds the fire flag, and its *)
(* cooldown is the full FIRE_COOLDOWN the shot set, not counted down      *)
C16_Witness ==
  \E i \in 1..Len(players) :
     /\ EventsFor(log, {"respawn"}, players[i].id) # {}
     /\ players[i].alive /\ players[i].hp = MAX_HP
     /\ players[i].x = spawnPosFor(players[i].team).x
     /\ players[i].y = spawnPosFor(players[i].team).y
     /\ players[i].inputs.lmb /\ players[i].fireCooldown = FIRE_COOLDOWN
     /\ EventsFor(log, {"spawn"}, players[i].id) = {}
     /\ players[i].respawnTimer = Sub(Num(RESPAWN_TIME), DT)

(* ------------------------------------------------------------------ *)
(* C17                                                                 *)
(* ------------------------------------------------------------------ *)
(* the life of a bullet after 1, 2, ... n ticks, from life l before them *)
RECURSIVE LivesFrom(_, _)
LivesFrom(l, n) ==
  IF n = 0 THEN << >> ELSE << Sub(l, DT) >> \o LivesFrom(Sub(l, DT), n - 1)

Lives == LivesFrom(BULLET_LIFE, 36)

(* the number of ticks bullet b has been through, its spawn tick included *)
(* (0 when its life is none of those a bullet goes through)               *)
Age(b) ==
  IF \E n \in 1..36 : Lives[n] = b.life
  THEN CHOOSE n \in 1..36 : Lives[n] = b.life
  ELSE 0

(* a bullet in the list between ticks has been through 1 to 35 ticks, and *)
(* no two bullets of a team have the same age                             *)
C17_InFlight(bs) ==
  /\ \A j \in 1..Len(bs) :
        /\ Age(bs[j]) >= 1
        /\ Age(bs[j]) <= 36 - 1
  /\ \A j, m \in 1..Len(bs) :
        (j # m /\ bs[j].team = bs[m].team) => bs[j].life # bs[m].life

C17_Step ==
  /\ (12 * TICK_RATE + 9) \div 10 = 36
  /\ Lt(Zero, Lives[36 - 1]) /\ Le(Lives[36], Zero)
  /\ C17_InFlight(bullets)
  /\ C17_InFlight(bullets')
  /\ IsTick =>
        /\ \A j \in 1..Len(bullets') :
              \/ Age(bullets'[j]) = 1
                 /\ Cardinality({ n \in 1..Len(log') :
                                     log'[n].k = "spawn"
                                     /\ log'[n].team = bullets'[j].team }) = 1
              \/ Age(bullets'[j]) > 1
                 /\ InFlight(bullets, bullets'[j].team, Lives[Age(bullets'[j]) - 1])
        /\ \A j \in 1..Len(bullets) :
              Age(bullets[j]) = 36 - 1 =>
                 /\ ~InFlight(bullets', bullets[j].team, Sub(bullets[j].life, DT))
                 /\ Count(EventsOf(log', bullets[j].team, Sub(bullets[j].life, DT)),
                          "remove") = 1

(* C17: every bullet is removed within ceil(1.2 / DT) = 36 ticks, the     *)
(* tick of its spawn included: a bullet in the list has been through at   *)
(* most 35 ticks, each tick adds one to the age of those that stay, and   *)
(* one that enters its 36th tick is removed in it; a team has at most one *)
(* bullet of each age, so the list stays bounded.                         *)
C17_BulletsRemoved == [][C17_Step]_vars

(* a bullet that met nothing has been removed by timeout in its 36th tick *)
C17_Witness ==
  /\ \E n \in 1..Len(log) :
        /\ log[n].k = "remove" /\ log[n].why = "timeout"
        /\ log[n].life = Lives[36]
  /\ bullets = << >>

(* ------------------------------------------------------------------ *)
(* C18                                                                 *)
(* ------------------------------------------------------------------ *)
(* the world w of two players with the Map holding them in the other      *)
(* order: the first entry has left and come back (a new socket id, the    *)
(* same slot) and is now behind the second                                *)
OtherOrder(w) ==
  [w EXCEPT !.players = << w.players[2], [w.players[1] EXCEPT !.id = w.nextId] >>,
            !.since = << w.since[2], w.since[1] >>,
            !.nextId = w.nextId + 1]

TwoPlayers(ps) ==
  /\ Len(ps) = 2
  /\ ps[1].role = "player" /\ ps[2].role = "player"

(* what the tick leaves of a player, its socket id and intent aside *)
Body(p) ==
  [team |-> p.team, x |-> p.x, y |-> p.y, angle |-> p.angle, vx |-> p.vx,
   vy |-> p.vy, hp |-> p.hp, erase |-> p.erase, alive |-> p.alive,
   fireCooldown |-> p.fireCooldown, respawnTimer |-> p.respawnTimer]

SameOutcome(a, b) ==
  /\ { Body(a.players[i]) : i \in 1..Len(a.players) }
       = { Body(b.players[i]) : i \in 1..Len(b.players) }
  /\ { a.bullets[j] : j \in 1..Len(a.bullets) }
       = { b.bullets[j] : j \in 1..Len(b.bullets) }
  /\ a.paint = b.paint

(* C18: one gameTick gives the same hp, erase-resource, positions,        *)
(* bullets and paint grid whichever of red and blue the players Map       *)
(* holds first, from the same players, intents, bullets and paint grid.   *)
C18_OrderIrrelevant ==
  TwoPlayers(players) => SameOutcome(gameTick(World), gameTick(OtherOrder(World)))

(* ------------------------------------------------------------------ *)
(* C19                                                                 *)
(* ------------------------------------------------------------------ *)
Holders(ps, team) ==
  { i \in 1..Len(ps) : ps[i].role = "player" /\ ps[i].team = team }

(* C19: in every reachable state at most one connected entry is the red   *)
(* player and at most one the blue player, and every other entry is a     *)
(* spectator without a team.                                              *)
C19_OnePerTeam ==
  /\ Cardinality(Holders(players, "red")) <= 1
  /\ Cardinality(Holders(players, "blue")) <= 1
  /\ \A i \in 1..Len(players) :
        \/ players[i].role = "player" /\ players[i].team \in {"red", "blue"}
        \/ players[i].role = "spectator" /\ players[i].team = "none"

(* five lobby events: blue (id 2) left and its slot went to id 4, behind  *)
(* the spectator (id 3) that stayed a spectator                           *)
C19_Witness ==
  /\ Len(players) = 3
  /\ nextId = 5
  /\ players[1].id = 1 /\ players[1].role = "player" /\ players[1].team = "red"
  /\ players[2].id = 3 /\ players[2].role = "spectator"
  /\ players[3].id = 4 /\ players[3].role = "player" /\ players[3].team = "blue"

(* ------------------------------------------------------------------ *)
(* C20                                                                 *)
(* ------------------------------------------------------------------ *)
C20_Step ==
  IsTick =>
    /\ Len(players') = Len(players)
    /\ \A i \in 1..Len(players) :
          players[i].role = "spectator" =>
             /\ players'[i] = players[i]
             /\ EventsFor(log', {"upd", "spawn", "erase", "death", "respawn", "hit"},
                          players[i].id) = {}

(* C20: a gameTick leaves every spectator entry as it was (position,      *)
(* angle, hp, erase-resource, alive flag, fire cooldown, respawn timer),  *)
(* whatever intent it has submitted; no bullet is spawned, no tile        *)
(* changed and no bullet removed on its account: bullets pass through     *)
(* the place a spectator entry holds.                                     *)
C20_SpectatorUntouched == [][C20_Step]_vars

(* a spectator that has asked to fire is as it was made, with no shot     *)
(* spent, after a tick in which a bullet stepped within hit distance of   *)
(* its place, clear of walls, and flew on: nothing was hit or removed     *)
C20_Witness ==
  \E i \in 1..Len(players), m \in 1..Len(log) :
     /\ players[i].role = "spectator"
     /\ players[i].inputs.lmb
     /\ players[i].fireCooldown = Zero
     /\ players[i].hp = MAX_HP
     /\ log[m].k = "step"
     /\ InHitRange(players[i], log[m].x, log[m].y)
     /\ ~collidesWithWalls(log[m].x, log[m].y, BULLET_RADIUS)
     /\ Count(log, "hit") = 0
     /\ Count(log, "remove") = 0
     /\ EventsFor(log, {"spawn"}, players[i].id) = {}

====

